---- MODULE Spec2Model ----
(***************************************************************************)
(* A model of WebCore's content-extension compiler                         *)
(* (Source/WebCore/contentextensions/ContentExtensionCompiler.cpp):        *)
(* serializeSelector, resolvePendingDisplayNoneActions, serializeActions,  *)
(* addUniversalActionsToDFA and compileRuleList; and of the face list, the *)
(* partition index and the active count of WebCore's CSSFontFaceSet        *)
(* (Source/WebCore/css/CSSFontFaceSet.cpp).                                *)
(*                                                                         *)
(* Vectors are sequences; a C++ index or byte offset k is position k + 1   *)
(* of the sequence.  A HashMap is a function on its key set, a HashSet a   *)
(* set; whenever the code iterates one, the iteration order is an extra    *)
(* parameter that the callers quantify over.                               *)
(***************************************************************************)
EXTENDS Integers, Sequences, FiniteSets, TLC

VARIABLES
    ruleJSON,                          \* the input of compileRuleList
    parsedRuleList,                    \* Vector<ContentExtensionRule>
    actions,                           \* Vector<SerializedActionByte>
    actionLocations,                   \* Vector<unsigned>
    ruleIndex,                         \* loop index of the partitioning loop
    universalActionsWithoutConditions, \* UniversalActionSet
    universalActionsWithConditions,    \* UniversalActionSet
    filtersWithoutConditions,          \* CombinedURLFilters
    filtersWithConditions,             \* CombinedURLFilters
    conditionFilters,                  \* CombinedURLFilters
    firstNFAWithoutConditionsSeen,
    firstNFAWithConditionsSeen,
    smallFiltersWithoutConditionsDFACombiner,
    smallFiltersWithConditionsDFACombiner,
    client,                            \* the calls the sink has received
    filterCalls,                       \* the addPattern / addDomain calls made so far
    minimizeCalls,                     \* the dfa.minimize() calls made so far
    result,                            \* the returned std::error_code
    pc,                                \* position inside compileRuleList
    fontFaces,                         \* the CSSFontFace objects: status, cssConnection
    m_faces,                           \* Vector<Ref<CSSFontFace>> of the CSSFontFaceSet
    m_facesPartitionIndex,             \* size_t: number of CSS-connected faces
    m_activeCount,                     \* unsigned
    m_status,                          \* Status of the CSSFontFaceSet
    addedFaces,                        \* the faces of the set in the order of their add
    universalAttach                    \* a call of addUniversalActionsToDFA on its own

vars == <<ruleJSON, parsedRuleList, actions, actionLocations, ruleIndex,
          universalActionsWithoutConditions, universalActionsWithConditions,
          filtersWithoutConditions, filtersWithConditions, conditionFilters,
          firstNFAWithoutConditionsSeen, firstNFAWithConditionsSeen,
          smallFiltersWithoutConditionsDFACombiner,
          smallFiltersWithConditionsDFACombiner,
          client, filterCalls, minimizeCalls, result, pc,
          fontFaces, m_faces, m_facesPartitionIndex, m_activeCount, m_status,
          addedFaces, universalAttach>>

\* the variables of the content extension compiler
compilerVars == <<ruleJSON, parsedRuleList, actions, actionLocations, ruleIndex,
                  universalActionsWithoutConditions, universalActionsWithConditions,
                  filtersWithoutConditions, filtersWithConditions, conditionFilters,
                  firstNFAWithoutConditionsSeen, firstNFAWithConditionsSeen,
                  smallFiltersWithoutConditionsDFACombiner,
                  smallFiltersWithConditionsDFACombiner,
                  client, filterCalls, minimizeCalls, result, pc>>

\* the variables of the font face set and of its faces
fontFaceSetVars == <<fontFaces, m_faces, m_facesPartitionIndex, m_activeCount,
                     m_status, addedFaces>>

----------------------------------------------------------------------------
(* Bounds of the model. *)

\* longest rule list handed to serializeActions on its own
MaxRules == 3
\* longest rule list handed to compileRuleList
MaxParsedRules == 3

----------------------------------------------------------------------------
(* Generic helpers. *)

Range(s) == {s[i] : i \in DOMAIN s}

\* all enumerations of a finite set: the possible iteration orders of a
\* hash table holding exactly these keys
Perms(S) == {f \in [1..Cardinality(S) -> S] : \A i, j \in DOMAIN f : f[i] = f[j] => i = j}

SeqsUpTo(S, n) == UNION {[1..k -> S] : k \in 0..n}

----------------------------------------------------------------------------
(* Strings, action types, triggers and rules. *)

\* A WTF::String: its code units and whether it is stored as 8-bit.
String8(chars) == [is8Bit |-> TRUE, chars |-> chars]
String16(chars) == [is8Bit |-> FALSE, chars |-> chars]
NullString == String8(<<>>)

Comma == 44

\* enum class ActionType : uint8_t, in declaration order
ActionTypes == <<"BlockLoad", "BlockCookies", "CSSDisplayNoneSelector",
                 "CSSDisplayNoneStyleSheet", "IgnorePreviousRules", "MakeHTTPS",
                 "InvalidAction">>

\* static_cast<SerializedActionByte>(actionType)
SerializedActionByte(actionType) ==
    (CHOOSE i \in DOMAIN ActionTypes : ActionTypes[i] = actionType) - 1

\* std::numeric_limits<unsigned>::max(): the "not yet known" action location.
\* Kept as the largest integer the model's 32-bit signed arithmetic holds.
UINT_MAX == 2147483647

Trigger(urlFilter, caseSensitive, flags, conditions, conditionType) ==
    [urlFilter |-> urlFilter, urlFilterIsCaseSensitive |-> caseSensitive,
     flags |-> flags, conditions |-> conditions, conditionType |-> conditionType]

Action(type, stringArgument) == [type |-> type, stringArgument |-> stringArgument]

ContentExtensionRule(trigger, action) == [trigger |-> trigger, action |-> action]

----------------------------------------------------------------------------
(* serializeSelector *)

\* the bytes of an unsigned with the most significant byte first
UnsignedBytes_bigEndian(n) ==
    <<(n \div 16777216) % 256, (n \div 65536) % 256, (n \div 256) % 256, n % 256>>

\* the sizeof(unsigned) bytes of an unsigned, as the reinterpret_cast store
\* lays them out on the little-endian targets of the build
UnsignedBytes(n) ==
    <<n % 256, (n \div 256) % 256, (n \div 65536) % 256, (n \div 16777216) % 256>>

\* the code units of a wide string appended as one byte each
UCharBytes_oneByteEach(chars) == [k \in 1..Len(chars) |-> chars[k] % 256]

\* the sizeof(UChar) bytes of each code unit, low byte first
UCharBytes(chars) ==
    [k \in 1..(2 * Len(chars)) |->
        IF k % 2 = 1 THEN chars[(k + 1) \div 2] % 256
                     ELSE (chars[k \div 2] \div 256) % 256]

\* the code units of an 8-bit string, appended one byte each
LCharBytes(chars) == [k \in 1..Len(chars) |-> chars[k] % 256]

\* serializeSelector starting the entry with the byte of another type
serializeSelector_wrongType(acts, selector) ==
    LET selectorLength == Len(selector.chars)
        wideCharacters == ~selector.is8Bit
        header == Append(acts, SerializedActionByte("CSSDisplayNoneStyleSheet"))
                    \o UnsignedBytes(selectorLength)
                    \o <<IF wideCharacters THEN 1 ELSE 0>>
    IN  IF wideCharacters
        THEN header \o UCharBytes(selector.chars)
        ELSE header \o LCharBytes(selector.chars)

serializeSelector(acts, selector) ==
    LET selectorLength == Len(selector.chars)
        wideCharacters == ~selector.is8Bit
        header == Append(acts, SerializedActionByte("CSSDisplayNoneSelector"))
                    \o UnsignedBytes(selectorLength)
                    \o <<IF wideCharacters THEN 1 ELSE 0>>
    IN  IF wideCharacters
        THEN header \o UCharBytes(selector.chars)
        ELSE header \o LCharBytes(selector.chars)

----------------------------------------------------------------------------
(* resolvePendingDisplayNoneActions *)

PendingDisplayNoneActions(selectors, clientLocations) ==
    [selectors |-> selectors, clientLocations |-> clientLocations]

\* StringBuilder::append(const String&): nothing for an empty string; the
\* builder stays 8-bit only as long as everything appended is 8-bit
StringBuilderAppend(builder, string) ==
    IF Len(string.chars) = 0 THEN builder
    ELSE [is8Bit |-> builder.is8Bit /\ string.is8Bit,
          chars |-> builder.chars \o string.chars]

\* the loop building combinedSelectors, with the ',' put after every selector
RECURSIVE combinedSelectors_trailingComma(_, _, _)
combinedSelectors_trailingComma(builder, selectors, i) ==
    IF i > Len(selectors) THEN builder
    ELSE combinedSelectors_trailingComma(
             StringBuilderAppend(StringBuilderAppend(builder, selectors[i]), String8(<<Comma>>)),
             selectors, i + 1)

\* the loop building combinedSelectors: ',' before every selector but the first
RECURSIVE combinedSelectors(_, _, _)
combinedSelectors(builder, selectors, i) ==
    IF i > Len(selectors) THEN builder
    ELSE LET withComma == IF i > 1 THEN StringBuilderAppend(builder, String8(<<Comma>>))
                                   ELSE builder
         IN  combinedSelectors(StringBuilderAppend(withComma, selectors[i]), selectors, i + 1)

\* the back-fill loop stopping after the first client of a slot
backFill_firstClientOnly(locs, clientLocations, actionLocation) ==
    [i \in DOMAIN locs |->
        IF clientLocations # <<>> /\ i - 1 = Head(clientLocations)
        THEN actionLocation ELSE locs[i]]

\* actionLocations[clientLocation] = actionLocation for every client of a slot
backFill(locs, clientLocations, actionLocation) ==
    [i \in DOMAIN locs |->
        IF (i - 1) \in Range(clientLocations) THEN actionLocation ELSE locs[i]]

\* the loop over the slots in which only the slot visited first keeps its
\* selectors and every later slot is serialized with none
RECURSIVE resolvePendingDisplayNoneActions_firstSlotOnly(_, _, _, _, _)
resolvePendingDisplayNoneActions_firstSlotOnly(acts, locs, fatal, pendingDisplayNoneActionsMap, order) ==
    IF order = <<>>
    THEN [actions |-> acts, actionLocations |-> locs, fatal |-> fatal]
    ELSE LET pendingActions == pendingDisplayNoneActionsMap[Head(order)]
             selectors == IF Range(order) = DOMAIN pendingDisplayNoneActionsMap
                          THEN pendingActions.selectors ELSE <<>>
             actionLocation == Len(acts)
         IN  resolvePendingDisplayNoneActions_firstSlotOnly(
                 serializeSelector(acts, combinedSelectors(NullString, selectors, 1)),
                 backFill(locs, pendingActions.clientLocations, actionLocation),
                 fatal \/ \E c \in Range(pendingActions.clientLocations) : c >= Len(locs),
                 pendingDisplayNoneActionsMap, Tail(order))

\* The loop over the slots of the map, visited in the order `order`; the
\* caller clears the map.  Writing a location past the end of actionLocations
\* is a fatal Vector bounds failure.
RECURSIVE resolvePendingDisplayNoneActions(_, _, _, _, _)
resolvePendingDisplayNoneActions(acts, locs, fatal, pendingDisplayNoneActionsMap, order) ==
    IF order = <<>>
    THEN [actions |-> acts, actionLocations |-> locs, fatal |-> fatal]
    ELSE LET pendingActions == pendingDisplayNoneActionsMap[Head(order)]
             actionLocation == Len(acts)
         IN  resolvePendingDisplayNoneActions(
                 serializeSelector(acts, combinedSelectors(NullString, pendingActions.selectors, 1)),
                 backFill(locs, pendingActions.clientLocations, actionLocation),
                 fatal \/ \E c \in Range(pendingActions.clientLocations) : c >= Len(locs),
                 pendingDisplayNoneActionsMap, Tail(order))

----------------------------------------------------------------------------
(* serializeActions *)

EmptyMap == <<>>

\* the locals of serializeActions before the first rule
SerializerInit ==
    [actions |-> <<>>, actionLocations |-> <<>>, fatal |-> FALSE,
     blockLoadActionsMap |-> EmptyMap, blockCookiesActionsMap |-> EmptyMap,
     cssDisplayNoneActionsMap |-> EmptyMap, ignorePreviousRuleActionsMap |-> EmptyMap,
     makeHTTPSActionsMap |-> EmptyMap]

\* findOrMakeActionLocation without the lookup: a new entry every time
findOrMakeActionLocation_alwaysMakes(acts, map, flags, actionType) ==
    [actionLocation |-> Len(acts),
     actions |-> Append(acts, SerializedActionByte(actionType)),
     map |-> [f \in DOMAIN map \cup {flags} |-> IF f = flags THEN Len(acts) ELSE map[f]]]

\* the lambda findOrMakeActionLocation, on the map it is called with
findOrMakeActionLocation(acts, map, flags, actionType) ==
    IF flags \notin DOMAIN map
    THEN [actionLocation |-> Len(acts),
          actions |-> Append(acts, SerializedActionByte(actionType)),
          map |-> [f \in DOMAIN map \cup {flags} |-> IF f = flags THEN Len(acts) ELSE map[f]]]
    ELSE [actionLocation |-> map[flags], actions |-> acts, map |-> map]

\* the head of the loop body with the Block/BlockCookies/MakeHTTPS maps
\* surviving an IgnorePreviousRules rule
clearMapsForRule_keepsDedupMaps(s, actionType, order) ==
    IF actionType = "IgnorePreviousRules"
    THEN LET r == resolvePendingDisplayNoneActions(s.actions, s.actionLocations, s.fatal,
                                                   s.cssDisplayNoneActionsMap, order)
         IN  [s EXCEPT !.actions = r.actions, !.actionLocations = r.actionLocations,
                       !.fatal = r.fatal, !.cssDisplayNoneActionsMap = EmptyMap]
    ELSE [s EXCEPT !.ignorePreviousRuleActionsMap = EmptyMap]

\* the head of the loop body with the pending selectors neither flushed nor
\* dropped at an IgnorePreviousRules rule
clearMapsForRule_noFlush(s, actionType, order) ==
    IF actionType = "IgnorePreviousRules"
    THEN [s EXCEPT !.blockLoadActionsMap = EmptyMap, !.blockCookiesActionsMap = EmptyMap,
                   !.makeHTTPSActionsMap = EmptyMap]
    ELSE [s EXCEPT !.ignorePreviousRuleActionsMap = EmptyMap]

\* the head of the loop body with the IgnorePreviousRules map never cleared
clearMapsForRule_keepsIgnoreMap(s, actionType, order) ==
    IF actionType = "IgnorePreviousRules"
    THEN LET r == resolvePendingDisplayNoneActions(s.actions, s.actionLocations, s.fatal,
                                                   s.cssDisplayNoneActionsMap, order)
         IN  [s EXCEPT !.actions = r.actions, !.actionLocations = r.actionLocations,
                       !.fatal = r.fatal,
                       !.blockLoadActionsMap = EmptyMap, !.blockCookiesActionsMap = EmptyMap,
                       !.cssDisplayNoneActionsMap = EmptyMap, !.makeHTTPSActionsMap = EmptyMap]
    ELSE s

\* the head of the loop body: an IgnorePreviousRules rule flushes the pending
\* selectors and clears four maps, any other rule clears the fifth
clearMapsForRule(s, actionType, order) ==
    IF actionType = "IgnorePreviousRules"
    THEN LET r == resolvePendingDisplayNoneActions(s.actions, s.actionLocations, s.fatal,
                                                   s.cssDisplayNoneActionsMap, order)
         IN  [s EXCEPT !.actions = r.actions, !.actionLocations = r.actionLocations,
                       !.fatal = r.fatal,
                       !.blockLoadActionsMap = EmptyMap, !.blockCookiesActionsMap = EmptyMap,
                       !.cssDisplayNoneActionsMap = EmptyMap, !.makeHTTPSActionsMap = EmptyMap]
    ELSE [s EXCEPT !.ignorePreviousRuleActionsMap = EmptyMap]

\* the push of a conditioned rule that appends the type byte only, also for
\* a selector
pushConditionedRule_typeOnly(s, rule) ==
    [s EXCEPT !.actionLocations = Append(s.actionLocations, Len(s.actions)),
              !.actions = Append(s.actions, SerializedActionByte(rule.action.type))]

\* "Anything with condition is just pushed."
pushConditionedRule(s, rule) ==
    [s EXCEPT !.actionLocations = Append(s.actionLocations, Len(s.actions)),
              !.actions = IF rule.action.type = "CSSDisplayNoneSelector"
                          THEN serializeSelector(s.actions, rule.action.stringArgument)
                          ELSE Append(s.actions, SerializedActionByte(rule.action.type))]

\* the case recording the size of actionLocations after its own append
addPendingDisplayNoneAction_indexAfterAppend(s, rule) ==
    LET map == s.cssDisplayNoneActionsMap
        old == IF rule.trigger \in DOMAIN map THEN map[rule.trigger]
               ELSE PendingDisplayNoneActions(<<>>, <<>>)
        new == PendingDisplayNoneActions(Append(old.selectors, rule.action.stringArgument),
                                         Append(old.clientLocations, Len(s.actionLocations) + 1))
    IN  [s EXCEPT !.cssDisplayNoneActionsMap =
                      [t \in DOMAIN map \cup {rule.trigger} |->
                          IF t = rule.trigger THEN new ELSE map[t]],
                  !.actionLocations = Append(s.actionLocations, UINT_MAX)]

\* the case with one slot for all Triggers: the slot of the first Trigger
\* that was added
addPendingDisplayNoneAction_oneSlot(s, rule) ==
    LET map == s.cssDisplayNoneActionsMap
        key == IF DOMAIN map = {} THEN rule.trigger ELSE CHOOSE t \in DOMAIN map : TRUE
        old == IF key \in DOMAIN map THEN map[key]
               ELSE PendingDisplayNoneActions(<<>>, <<>>)
        new == PendingDisplayNoneActions(Append(old.selectors, rule.action.stringArgument),
                                         Append(old.clientLocations, Len(s.actionLocations)))
    IN  [s EXCEPT !.cssDisplayNoneActionsMap = [t \in {key} |-> new],
                  !.actionLocations = Append(s.actionLocations, UINT_MAX)]

\* case ActionType::CSSDisplayNoneSelector of the switch
addPendingDisplayNoneAction(s, rule) ==
    LET map == s.cssDisplayNoneActionsMap
        old == IF rule.trigger \in DOMAIN map THEN map[rule.trigger]
               ELSE PendingDisplayNoneActions(<<>>, <<>>)
        new == PendingDisplayNoneActions(Append(old.selectors, rule.action.stringArgument),
                                         Append(old.clientLocations, Len(s.actionLocations)))
    IN  [s EXCEPT !.cssDisplayNoneActionsMap =
                      [t \in DOMAIN map \cup {rule.trigger} |->
                          IF t = rule.trigger THEN new ELSE map[t]],
                  !.actionLocations = Append(s.actionLocations, UINT_MAX)]

\* the switch on the action type of a rule without conditions
dedupUnconditionedRule(s, rule) ==
    LET actionType == rule.action.type
        flags == rule.trigger.flags
        made(map) == findOrMakeActionLocation(s.actions, map, flags, actionType)
    IN  CASE actionType = "CSSDisplayNoneSelector" ->
                addPendingDisplayNoneAction(s, rule)
          [] actionType = "IgnorePreviousRules" ->
                LET m == made(s.ignorePreviousRuleActionsMap)
                IN  [s EXCEPT !.actions = m.actions, !.ignorePreviousRuleActionsMap = m.map,
                              !.actionLocations = Append(s.actionLocations, m.actionLocation)]
          [] actionType = "BlockLoad" ->
                LET m == made(s.blockLoadActionsMap)
                IN  [s EXCEPT !.actions = m.actions, !.blockLoadActionsMap = m.map,
                              !.actionLocations = Append(s.actionLocations, m.actionLocation)]
          [] actionType = "BlockCookies" ->
                LET m == made(s.blockCookiesActionsMap)
                IN  [s EXCEPT !.actions = m.actions, !.blockCookiesActionsMap = m.map,
                              !.actionLocations = Append(s.actionLocations, m.actionLocation)]
          [] actionType = "MakeHTTPS" ->
                LET m == made(s.makeHTTPSActionsMap)
                IN  [s EXCEPT !.actions = m.actions, !.makeHTTPSActionsMap = m.map,
                              !.actionLocations = Append(s.actionLocations, m.actionLocation)]
          [] OTHER -> \* CSSDisplayNoneStyleSheet, InvalidAction: RELEASE_ASSERT_NOT_REACHED
                [s EXCEPT !.fatal = TRUE]

\* one iteration of the loop without the test for conditions: every rule goes
\* through the switch
serializeRule_ignoresConditions(s, rule, order) ==
    dedupUnconditionedRule(clearMapsForRule(s, rule.action.type, order), rule)

\* one iteration of the loop over the rules
serializeRule(s, rule, order) ==
    LET cleared == clearMapsForRule(s, rule.action.type, order)
    IN  IF rule.trigger.conditions # <<>>
        THEN pushConditionedRule(cleared, rule)
        ELSE dedupUnconditionedRule(cleared, rule)

\* the iteration orders a flush of the pending map may take
SlotOrders(s) == Perms(DOMAIN s.cssDisplayNoneActionsMap)

\* The loop from rule number i on, then the final flush: the set of results
\* [actions, actionLocations, fatal], one per choice of iteration orders.
RECURSIVE serializeRulesFrom(_, _, _)
serializeRulesFrom(s, ruleList, i) ==
    IF i > Len(ruleList)
    THEN {resolvePendingDisplayNoneActions(s.actions, s.actionLocations, s.fatal,
                                           s.cssDisplayNoneActionsMap, order) :
              order \in SlotOrders(s)}
    ELSE UNION {serializeRulesFrom(serializeRule(s, ruleList[i], order), ruleList, i + 1) :
                    order \in IF ruleList[i].action.type = "IgnorePreviousRules"
                              THEN SlotOrders(s) ELSE {<<>>}}

\* the locals of serializeActions after the first k iterations of the loop,
\* one per choice of iteration orders
RECURSIVE statesAfter(_, _)
statesAfter(ruleList, k) ==
    IF k = 0 THEN {SerializerInit}
    ELSE UNION {{serializeRule(s, ruleList[k], order) :
                    order \in IF ruleList[k].action.type = "IgnorePreviousRules"
                              THEN SlotOrders(s) ELSE {<<>>}} :
                s \in statesAfter(ruleList, k - 1)}

serializeActions(ruleList) == serializeRulesFrom(SerializerInit, ruleList, 1)

----------------------------------------------------------------------------
(* The rule lists the model feeds to the code. *)

SelectorA == String8(<<46, 97>>)      \* ".a", stored 8-bit
SelectorW == String16(<<46, 945>>)    \* "." and a Greek alpha, stored 16-bit
Selectors == {SelectorA, SelectorW}

DedupableTypes == {"BlockLoad", "BlockCookies", "IgnorePreviousRules", "MakeHTTPS"}

\* the rules serializeActions is checked on
Rules ==
    {ContentExtensionRule(Trigger("a", FALSE, f, <<>>, "None"), Action(t, NullString)) :
        t \in DedupableTypes, f \in {0, 1}}
    \cup {ContentExtensionRule(Trigger("a", FALSE, 0, <<"d">>, "IfDomain"), Action(t, NullString)) :
        t \in DedupableTypes}
    \cup {ContentExtensionRule(tr, Action("CSSDisplayNoneSelector", sel)) :
        tr \in {Trigger("a", FALSE, 0, <<>>, "None"), Trigger("b", FALSE, 0, <<>>, "None"),
                Trigger("a", FALSE, 1, <<>>, "None"), Trigger("a", TRUE, 0, <<>>, "None"),
                Trigger("a", FALSE, 0, <<"d">>, "IfDomain")},
        sel \in Selectors}

\* the URL filters of the rules compileRuleList is checked on: an ordinary
\* pattern, one that matches everything and one that does not parse
UrlFilters == {"a", ".*", "["}

\* the rules compileRuleList is checked on
CompileRules ==
    {ContentExtensionRule(Trigger(u, FALSE, 1, <<>>, "None"), Action(t, IF t = "BlockLoad" THEN NullString
                                ELSE IF u = ".*" THEN SelectorW ELSE SelectorA)) :
        u \in UrlFilters, t \in {"BlockLoad", "CSSDisplayNoneSelector"}}
    \cup {ContentExtensionRule(Trigger(u, FALSE, 2, <<"d">>, "IfDomain"), Action("BlockLoad", NullString)) :
        u \in UrlFilters}
    \cup {ContentExtensionRule(Trigger(u, FALSE, 0, <<"d", "e">>, "UnlessDomain"), Action("IgnorePreviousRules", NullString)) :
        u \in UrlFilters}

\* the input text, by what the parser makes of it: a rule list, or nothing
\* when the text is not a well-formed rule list
WellFormed(rules) == [wellFormed |-> TRUE, rules |-> rules]
Malformed == [wellFormed |-> FALSE, rules |-> <<>>]

----------------------------------------------------------------------------
(* The collaborators of compileRuleList. *)

\* parseRuleList: the rule list of a well-formed input, an error otherwise
parseRuleList(json) ==
    IF ~json.wellFormed THEN [hasValue |-> FALSE, error |-> "JSONInvalid"]
    ELSE [hasValue |-> TRUE, value |-> json.rules]

\* the status URLFilterParser::addPattern reports for a pattern
addPatternStatus(pattern) ==
    CASE pattern = ".*" -> "MatchesEverything"
      [] pattern = "[" -> "ParseError"
      [] OTHER -> "Ok"

\* what CombinedURLFilters holds after addPattern / addDomain: a pattern that
\* is not Ok adds nothing
addPattern(filters, pattern, caseSensitive, actionLocationAndFlags) ==
    IF addPatternStatus(pattern) = "Ok"
    THEN filters \cup {[pattern |-> pattern, caseSensitive |-> caseSensitive,
                        action |-> actionLocationAndFlags]}
    ELSE filters

addDomain(filters, actionLocationAndFlags, domain) ==
    filters \cup {[pattern |-> domain, caseSensitive |-> TRUE,
                   action |-> actionLocationAndFlags]}

\* the graph sizes a converted DFA may have, on either side of smallDFASize
smallDFASize == 100
DFASizes == {smallDFASize - 1, smallDFASize}

\* an enumeration of a set: the order in which a deterministic traversal
\* visits it
RECURSIVE SetToSeq(_)
SetToSeq(S) ==
    IF S = {} THEN <<>>
    ELSE LET x == CHOOSE y \in S : TRUE IN <<x>> \o SetToSeq(S \ {x})

\* the non-empty initial runs of the traversal of a set
Runs(S) == {Range(SubSeq(SetToSeq(S), 1, k)) : k \in 1..Cardinality(S)}

\* the NFAs the next processNFAs callback may be handed: the traversal of
\* what the filters still hold, cut wherever the size cap may fall
NFAs(filters) == Runs(filters)

\* the DFAs the next combineDFAs callback may merge into one
Combinable(dfas) == Runs(dfas)

\* NFAToDFA::convert: the DFA of an NFA, with a root that has no actions
convert(nfa, graphSize) ==
    [filters |-> nfa, graphSize |-> graphSize, minimized |-> FALSE,
     actions |-> SetToSeq({e.action : e \in nfa}),
     rootActionsStart |-> 0, rootActionsLength |-> 0]

\* DFA::empty()
EmptyDFA == convert({}, 1)

\* the DFA a DFACombiner makes of some of the DFAs it holds
RECURSIVE SumSizes(_)
SumSizes(dfas) ==
    IF dfas = {} THEN 0
    ELSE LET d == CHOOSE x \in dfas : TRUE IN d.graphSize + SumSizes(dfas \ {d})

combine(dfas) == convert(UNION {d.filters : d \in dfas}, SumSizes(dfas))

\* DFA::minimize: the same filters and actions on a minimized graph
minimize(dfa) == [dfa EXCEPT !.minimized = TRUE]

\* the actions of the root of a DFA
rootActions(dfa) ==
    SubSeq(dfa.actions, dfa.rootActionsStart + 1, dfa.rootActionsStart + dfa.rootActionsLength)

\* DFABytecodeCompiler::compile: the bytecode of a DFA, by what an
\* interpreter finds in it
compile(dfa) ==
    [rootActions |-> rootActions(dfa),
     filters |-> dfa.filters,
     minimized |-> dfa.minimized]

----------------------------------------------------------------------------
(* Action words and addUniversalActionsToDFA. *)

RECURSIVE BitOr(_, _)
BitOr(a, b) ==
    IF a = 0 THEN b
    ELSE IF b = 0 THEN a
    ELSE (IF a % 2 = 1 \/ b % 2 = 1 THEN 1 ELSE 0) + 2 * BitOr(a \div 2, b \div 2)

\* IfConditionFlag >> 32: the flag is bit 47 of the 64-bit word
IfConditionFlagHigh == 32768

\* (static_cast<uint64_t>(trigger.flags) << 32) | actionLocation, as the
\* high and the low 32 bits of the word
actionLocationAndFlagsOf(flags, actionLocation) == [high |-> flags, low |-> actionLocation]

\* the case IfDomain leaving the word as it is
withIfConditionFlag_unchanged(word) == word

\* actionLocationAndFlags |= IfConditionFlag
withIfConditionFlag(word) == [word EXCEPT !.high = BitOr(word.high, IfConditionFlagHigh)]

\* std::numeric_limits<uint16_t>::max()
UINT16_MAX == 65535

\* addUniversalActionsToDFA appending the actions without making them the
\* root's
addUniversalActionsToDFA_notOnRoot(dfa, universalActions, order) ==
    [dfa |-> [dfa EXCEPT !.actions = dfa.actions \o order], fatal |-> FALSE]

\* addUniversalActionsToDFA, the set being iterated in the order `order`;
\* fatal is the RELEASE_ASSERT on the number of actions
addUniversalActionsToDFA(dfa, universalActions, order) ==
    IF universalActions = {}
    THEN [dfa |-> dfa, fatal |-> FALSE]
    ELSE LET actionsStart == Len(dfa.actions)
             appended == dfa.actions \o order
             actionsLength == Len(appended) - actionsStart
         IN  [dfa |-> [dfa EXCEPT !.actions = appended,
                                  !.rootActionsStart = actionsStart,
                                  !.rootActionsLength = actionsLength % (UINT16_MAX + 1)],
              fatal |-> ~(actionsLength < UINT16_MAX)]

\* the lowering lambda putting the universal actions on every DFA
lowerDFAToBytecode_everyDFA(dfa, firstNFASeen, universalActions, order) ==
    LET visited == IF firstNFASeen THEN SetToSeq(universalActions) ELSE order
        withUniversal == addUniversalActionsToDFA(dfa, universalActions, visited)
    IN  [bytecode |-> compile(withUniversal.dfa), fatal |-> withUniversal.fatal]

\* the lambdas lowerFiltersWith(out)ConditionsDFAToBytecode, up to the sink
\* call: the universal actions go on the first DFA of the stream only
lowerDFAToBytecode(dfa, firstNFASeen, universalActions, order) ==
    LET withUniversal == IF ~firstNFASeen
                         THEN addUniversalActionsToDFA(dfa, universalActions, order)
                         ELSE [dfa |-> dfa, fatal |-> FALSE]
    IN  [bytecode |-> compile(withUniversal.dfa), fatal |-> withUniversal.fatal]

\* the largest set of which every iteration order is taken
MaxPermuted == 4

\* The orders in which a universal action set may be iterated: any order,
\* for a set of up to MaxPermuted words.  A larger set is only ever built as
\* the words of consecutive one-byte entries from location 0 with the same
\* flags, and is iterated by ascending or by descending location.
IterationOrders(universalActions) ==
    IF Cardinality(universalActions) <= MaxPermuted
    THEN Perms(universalActions)
    ELSE LET n == Cardinality(universalActions)
             any == CHOOSE w \in universalActions : TRUE
         IN  {[i \in 1..n |-> [any EXCEPT !.low = i - 1]],
              [i \in 1..n |-> [any EXCEPT !.low = n - i]]}

\* the iteration orders of a universal action set that a lowering step uses
UniversalOrders(firstNFASeen, universalActions) ==
    IF firstNFASeen THEN {<<>>} ELSE IterationOrders(universalActions)

----------------------------------------------------------------------------
(* compileRuleList *)

NoError == "success"
Pending == "pending"

SinkCall(method, data) == [method |-> method, data |-> data]

FilterCall(op, filters, index, pattern, word) ==
    [op |-> op, filters |-> filters, ruleIndex |-> index, pattern |-> pattern, action |-> word]

\* CSSFontFaceSet(): an empty set
EmptyFontFaceSet ==
    /\ m_faces = <<>>
    /\ m_facesPartitionIndex = 0
    /\ m_activeCount = 0
    /\ m_status = "Loaded"
    /\ addedFaces = <<>>

\* an empty set, and no CSSFontFace created
NoFontFaces ==
    /\ fontFaces = <<>>
    /\ EmptyFontFaceSet

Locals ==
    /\ parsedRuleList = <<>>
    /\ actions = <<>>
    /\ actionLocations = <<>>
    /\ ruleIndex = 0
    /\ universalActionsWithoutConditions = {}
    /\ universalActionsWithConditions = {}
    /\ filtersWithoutConditions = {}
    /\ filtersWithConditions = {}
    /\ conditionFilters = {}
    /\ firstNFAWithoutConditionsSeen = FALSE
    /\ firstNFAWithConditionsSeen = FALSE
    /\ smallFiltersWithoutConditionsDFACombiner = {}
    /\ smallFiltersWithConditionsDFACombiner = {}
    /\ client = <<>>
    /\ filterCalls = <<>>
    /\ minimizeCalls = <<>>
    /\ universalAttach = <<>>
    /\ result = Pending

\* compileRuleList is entered with some input
Init ==
    /\ ruleJSON \in {Malformed} \cup {WellFormed(rules) : rules \in SeqsUpTo(CompileRules, MaxParsedRules)}
    /\ Locals
    /\ NoFontFaces
    /\ pc = "parseRuleList"

\* return ruleList.error();
returnedParseError_success(ruleList) == NoError

returnedParseError(ruleList) == ruleList.error

\* auto ruleList = parseRuleList(...); if (!ruleList.hasValue()) return ruleList.error();
ParseRuleList ==
    /\ pc = "parseRuleList"
    /\ LET ruleList == parseRuleList(ruleJSON)
       IN  IF ~ruleList.hasValue
           THEN /\ result' = returnedParseError(ruleList)
                /\ pc' = "returned"
                /\ UNCHANGED parsedRuleList
           ELSE /\ parsedRuleList' = ruleList.value
                /\ pc' = "serializeActions"
                /\ UNCHANGED result
    /\ UNCHANGED <<ruleJSON, actions, actionLocations, ruleIndex,
                   universalActionsWithoutConditions, universalActionsWithConditions,
                   filtersWithoutConditions, filtersWithConditions, conditionFilters,
                   firstNFAWithoutConditionsSeen, firstNFAWithConditionsSeen,
                   smallFiltersWithoutConditionsDFACombiner,
                   smallFiltersWithConditionsDFACombiner, client, filterCalls>>
    /\ UNCHANGED <<minimizeCalls, fontFaceSetVars, universalAttach>>

\* Vector<unsigned> actionLocations = serializeActions(parsedRuleList, actions);
SerializeActions ==
    /\ pc = "serializeActions"
    /\ \E r \in serializeActions(parsedRuleList) :
          /\ actions' = r.actions
          /\ actionLocations' = r.actionLocations
          /\ pc' = IF r.fatal THEN "crashed" ELSE "writeActions"
    /\ UNCHANGED <<ruleJSON, parsedRuleList, ruleIndex,
                   universalActionsWithoutConditions, universalActionsWithConditions,
                   filtersWithoutConditions, filtersWithConditions, conditionFilters,
                   firstNFAWithoutConditionsSeen, firstNFAWithConditionsSeen,
                   smallFiltersWithoutConditionsDFACombiner,
                   smallFiltersWithConditionsDFACombiner, client, filterCalls, result>>
    /\ UNCHANGED <<minimizeCalls, fontFaceSetVars, universalAttach>>

\* a clear() that leaves the vector as it is
clear_keeps(vector) == vector

\* Vector::clear()
clear(vector) == <<>>

\* client.writeActions(WTFMove(actions)); actions.clear();
WriteActions ==
    /\ pc = "writeActions"
    /\ client' = Append(client, SinkCall("writeActions", actions))
    /\ actions' = clear(actions)
    /\ ruleIndex' = 0
    /\ pc' = "partition"
    /\ UNCHANGED <<ruleJSON, parsedRuleList, actionLocations,
                   universalActionsWithoutConditions, universalActionsWithConditions,
                   filtersWithoutConditions, filtersWithConditions, conditionFilters,
                   firstNFAWithoutConditionsSeen, firstNFAWithConditionsSeen,
                   smallFiltersWithoutConditionsDFACombiner,
                   smallFiltersWithConditionsDFACombiner, filterCalls, result>>
    /\ UNCHANGED <<minimizeCalls, fontFaceSetVars, universalAttach>>

\* the loop over the conditions stopping after the first of them
addDomains_firstOnly(filters, actionLocationAndFlags, conditions, i) ==
    IF conditions = <<>> THEN filters
    ELSE addDomain(filters, actionLocationAndFlags, conditions[1])

\* the loop over the conditions adding none of them
addDomains_none(filters, actionLocationAndFlags, conditions, i) == filters

\* for (const String& condition : trigger.conditions) conditionFilters.addDomain(...)
RECURSIVE addDomains(_, _, _, _)
addDomains(filters, actionLocationAndFlags, conditions, i) ==
    IF i > Len(conditions) THEN filters
    ELSE addDomains(addDomain(filters, actionLocationAndFlags, conditions[i]),
                    actionLocationAndFlags, conditions, i + 1)

\* MatchesEverything is turned into Ok; if (status != URLFilterParser::Ok) return ...
patternRejected_never(status) == FALSE

patternRejected(status) ==
    LET afterUniversal == IF status = "MatchesEverything" THEN "Ok" ELSE status
    IN  afterUniversal # "Ok"

\* the test of the partition loop taking every trigger for unconditioned
conditionsIsEmpty_always(trigger) == TRUE

\* if (trigger.conditions.isEmpty())
conditionsIsEmpty(trigger) == trigger.conditions = <<>>

\* One iteration of the loop that hands every rule's pattern to one of the
\* two pattern graphs, and its condition domains to the third.
PartitionRule ==
    /\ pc = "partition"
    /\ ruleIndex < Len(parsedRuleList)
    /\ LET trigger == parsedRuleList[ruleIndex + 1].trigger
           plain == actionLocationAndFlagsOf(trigger.flags, actionLocations[ruleIndex + 1])
           actionLocationAndFlags ==
               IF ~conditionsIsEmpty(trigger) /\ trigger.conditionType = "IfDomain"
               THEN withIfConditionFlag(plain) ELSE plain
           status == addPatternStatus(trigger.urlFilter)
           accepted == ~patternRejected(status)
           which == IF conditionsIsEmpty(trigger) THEN "withoutConditions" ELSE "withConditions"
           patternCall == FilterCall("addPattern", which, ruleIndex, trigger.urlFilter,
                                     actionLocationAndFlags)
           domainCalls == [i \in DOMAIN trigger.conditions |->
                              FilterCall("addDomain", "conditionFilters", ruleIndex,
                                         trigger.conditions[i], actionLocationAndFlags)]
       IN  /\ IF conditionsIsEmpty(trigger)
              THEN /\ filtersWithoutConditions' =
                          addPattern(filtersWithoutConditions, trigger.urlFilter,
                                     trigger.urlFilterIsCaseSensitive, actionLocationAndFlags)
                   /\ universalActionsWithoutConditions' =
                          IF status = "MatchesEverything"
                          THEN universalActionsWithoutConditions \cup {actionLocationAndFlags}
                          ELSE universalActionsWithoutConditions
                   /\ filterCalls' = Append(filterCalls, patternCall)
                   /\ UNCHANGED <<filtersWithConditions, universalActionsWithConditions,
                                  conditionFilters>>
              ELSE /\ filtersWithConditions' =
                          addPattern(filtersWithConditions, trigger.urlFilter,
                                     trigger.urlFilterIsCaseSensitive, actionLocationAndFlags)
                   /\ universalActionsWithConditions' =
                          IF status = "MatchesEverything"
                          THEN universalActionsWithConditions \cup {actionLocationAndFlags}
                          ELSE universalActionsWithConditions
                   /\ conditionFilters' =
                          IF accepted
                          THEN addDomains(conditionFilters, actionLocationAndFlags,
                                          trigger.conditions, 1)
                          ELSE conditionFilters
                   /\ filterCalls' = IF accepted
                                     THEN Append(filterCalls, patternCall) \o domainCalls
                                     ELSE Append(filterCalls, patternCall)
                   /\ UNCHANGED <<filtersWithoutConditions, universalActionsWithoutConditions>>
           /\ IF accepted
              THEN /\ ruleIndex' = ruleIndex + 1
                   /\ UNCHANGED <<result, pc>>
              ELSE /\ result' = "JSONInvalidRegex"
                   /\ pc' = "returned"
                   /\ UNCHANGED ruleIndex
    /\ UNCHANGED <<ruleJSON, parsedRuleList, actions, actionLocations,
                   firstNFAWithoutConditionsSeen, firstNFAWithConditionsSeen,
                   smallFiltersWithoutConditionsDFACombiner,
                   smallFiltersWithConditionsDFACombiner, client>>
    /\ UNCHANGED <<minimizeCalls, fontFaceSetVars, universalAttach>>

\* parsedRuleList.clear(); actionLocations.clear();
ReleaseRuleList ==
    /\ pc = "partition"
    /\ ruleIndex = Len(parsedRuleList)
    /\ parsedRuleList' = clear(parsedRuleList)
    /\ actionLocations' = clear(actionLocations)
    /\ pc' = "withoutConditions"
    /\ UNCHANGED <<ruleJSON, actions, ruleIndex,
                   universalActionsWithoutConditions, universalActionsWithConditions,
                   filtersWithoutConditions, filtersWithConditions, conditionFilters,
                   firstNFAWithoutConditionsSeen, firstNFAWithConditionsSeen,
                   smallFiltersWithoutConditionsDFACombiner,
                   smallFiltersWithConditionsDFACombiner, client, filterCalls, result>>
    /\ UNCHANGED <<minimizeCalls, fontFaceSetVars, universalAttach>>

\* the test of the callback with the threshold itself counted as small
isSmallDFA_atThreshold(dfa) == dfa.graphSize <= smallDFASize

\* if (dfa.graphSize() < smallDFASize)
isSmallDFA(dfa) == dfa.graphSize < smallDFASize

\* dfa.minimize() called in the processNFAs callback of a pattern graph
MinimizeCall(filters, dfa) ==
    [filters |-> filters, nfa |-> dfa.filters, graphSize |-> dfa.graphSize]

\* One callback of filtersWithoutConditions.processNFAs: a small DFA goes to
\* the combiner, any other is minimized and lowered at once.
ProcessNFAWithoutConditions ==
    /\ pc = "withoutConditions"
    /\ filtersWithoutConditions # {}
    /\ UNCHANGED <<fontFaceSetVars, universalAttach>>
    /\ \E nfa \in NFAs(filtersWithoutConditions), graphSize \in DFASizes :
          LET dfa == convert(nfa, graphSize)
          IN  /\ filtersWithoutConditions' = filtersWithoutConditions \ nfa
              /\ IF isSmallDFA(dfa)
                 THEN /\ smallFiltersWithoutConditionsDFACombiner' =
                             smallFiltersWithoutConditionsDFACombiner \cup {dfa}
                      /\ UNCHANGED <<client, firstNFAWithoutConditionsSeen, minimizeCalls, pc>>
                 ELSE /\ minimizeCalls' = Append(minimizeCalls,
                             MinimizeCall("withoutConditions", dfa))
                      /\ \E order \in UniversalOrders(firstNFAWithoutConditionsSeen,
                                                      universalActionsWithoutConditions) :
                            LET lowered == lowerDFAToBytecode(minimize(dfa),
                                               firstNFAWithoutConditionsSeen,
                                               universalActionsWithoutConditions, order)
                            IN  IF lowered.fatal
                                THEN /\ pc' = "crashed"
                                     /\ UNCHANGED <<client, firstNFAWithoutConditionsSeen>>
                                ELSE /\ client' = Append(client,
                                            SinkCall("writeFiltersWithoutConditionsBytecode",
                                                     lowered.bytecode))
                                     /\ firstNFAWithoutConditionsSeen' = TRUE
                                     /\ UNCHANGED pc
                      /\ UNCHANGED smallFiltersWithoutConditionsDFACombiner
    /\ UNCHANGED <<ruleJSON, parsedRuleList, actions, actionLocations, ruleIndex,
                   universalActionsWithoutConditions, universalActionsWithConditions,
                   filtersWithConditions, conditionFilters, firstNFAWithConditionsSeen,
                   smallFiltersWithConditionsDFACombiner, filterCalls, result>>

\* One callback of smallFiltersWithoutConditionsDFACombiner.combineDFAs.
CombineDFAsWithoutConditions ==
    /\ pc = "withoutConditions"
    /\ filtersWithoutConditions = {}
    /\ smallFiltersWithoutConditionsDFACombiner # {}
    /\ \E dfas \in Combinable(smallFiltersWithoutConditionsDFACombiner),
          order \in UniversalOrders(firstNFAWithoutConditionsSeen,
                                    universalActionsWithoutConditions) :
          LET lowered == lowerDFAToBytecode(combine(dfas), firstNFAWithoutConditionsSeen,
                                            universalActionsWithoutConditions, order)
          IN  /\ smallFiltersWithoutConditionsDFACombiner' =
                     smallFiltersWithoutConditionsDFACombiner \ dfas
              /\ IF lowered.fatal
                 THEN /\ pc' = "crashed"
                      /\ UNCHANGED <<client, firstNFAWithoutConditionsSeen>>
                 ELSE /\ client' = Append(client,
                             SinkCall("writeFiltersWithoutConditionsBytecode", lowered.bytecode))
                      /\ firstNFAWithoutConditionsSeen' = TRUE
                      /\ UNCHANGED pc
    /\ UNCHANGED <<ruleJSON, parsedRuleList, actions, actionLocations, ruleIndex,
                   universalActionsWithoutConditions, universalActionsWithConditions,
                   filtersWithoutConditions, filtersWithConditions, conditionFilters,
                   firstNFAWithConditionsSeen, smallFiltersWithConditionsDFACombiner,
                   filterCalls, result>>
    /\ UNCHANGED <<minimizeCalls, fontFaceSetVars, universalAttach>>

\* the dummy DFA of a stream that lowered none: DFA::empty() with the
\* universal actions, compiled
dummyBytecode(universalActions, order) ==
    LET withUniversal == addUniversalActionsToDFA(EmptyDFA, universalActions, order)
    IN  [bytecode |-> compile(withUniversal.dfa), fatal |-> withUniversal.fatal]

\* if (!firstNFAWithoutConditionsSeen)
needsDummyWithoutConditions_never == FALSE

needsDummyWithoutConditions == ~firstNFAWithoutConditionsSeen

\* if (!firstNFAWithoutConditionsSeen) { ...dummy DFA... }
\* universalActionsWithoutConditions.clear();
FinishWithoutConditions ==
    /\ pc = "withoutConditions"
    /\ filtersWithoutConditions = {}
    /\ smallFiltersWithoutConditionsDFACombiner = {}
    /\ IF needsDummyWithoutConditions
       THEN \E order \in IterationOrders(universalActionsWithoutConditions) :
               LET dummy == dummyBytecode(universalActionsWithoutConditions, order)
               IN  IF dummy.fatal
                   THEN /\ pc' = "crashed"
                        /\ UNCHANGED <<client, universalActionsWithoutConditions>>
                   ELSE /\ client' = Append(client,
                               SinkCall("writeFiltersWithoutConditionsBytecode", dummy.bytecode))
                        /\ universalActionsWithoutConditions' = {}
                        /\ pc' = "withConditions"
       ELSE /\ universalActionsWithoutConditions' = {}
            /\ pc' = "withConditions"
            /\ UNCHANGED client
    /\ UNCHANGED <<ruleJSON, parsedRuleList, actions, actionLocations, ruleIndex,
                   universalActionsWithConditions,
                   filtersWithoutConditions, filtersWithConditions, conditionFilters,
                   firstNFAWithoutConditionsSeen, firstNFAWithConditionsSeen,
                   smallFiltersWithoutConditionsDFACombiner,
                   smallFiltersWithConditionsDFACombiner, filterCalls, result>>
    /\ UNCHANGED <<minimizeCalls, fontFaceSetVars, universalAttach>>

\* One callback of filtersWithConditions.processNFAs: a small DFA goes to
\* the combiner, any other is minimized and lowered at once.
ProcessNFAWithConditions ==
    /\ pc = "withConditions"
    /\ filtersWithConditions # {}
    /\ UNCHANGED <<fontFaceSetVars, universalAttach>>
    /\ \E nfa \in NFAs(filtersWithConditions), graphSize \in DFASizes :
          LET dfa == convert(nfa, graphSize)
          IN  /\ filtersWithConditions' = filtersWithConditions \ nfa
              /\ IF isSmallDFA(dfa)
                 THEN /\ smallFiltersWithConditionsDFACombiner' =
                             smallFiltersWithConditionsDFACombiner \cup {dfa}
                      /\ UNCHANGED <<client, firstNFAWithConditionsSeen, minimizeCalls, pc>>
                 ELSE /\ minimizeCalls' = Append(minimizeCalls,
                             MinimizeCall("withConditions", dfa))
                      /\ \E order \in UniversalOrders(firstNFAWithConditionsSeen,
                                                      universalActionsWithConditions) :
                            LET lowered == lowerDFAToBytecode(minimize(dfa),
                                               firstNFAWithConditionsSeen,
                                               universalActionsWithConditions, order)
                            IN  IF lowered.fatal
                                THEN /\ pc' = "crashed"
                                     /\ UNCHANGED <<client, firstNFAWithConditionsSeen>>
                                ELSE /\ client' = Append(client,
                                            SinkCall("writeFiltersWithConditionsBytecode",
                                                     lowered.bytecode))
                                     /\ firstNFAWithConditionsSeen' = TRUE
                                     /\ UNCHANGED pc
                      /\ UNCHANGED smallFiltersWithConditionsDFACombiner
    /\ UNCHANGED <<ruleJSON, parsedRuleList, actions, actionLocations, ruleIndex,
                   universalActionsWithConditions, universalActionsWithoutConditions,
                   filtersWithoutConditions, conditionFilters, firstNFAWithoutConditionsSeen,
                   smallFiltersWithoutConditionsDFACombiner, filterCalls, result>>

\* One callback of smallFiltersWithConditionsDFACombiner.combineDFAs.
CombineDFAsWithConditions ==
    /\ pc = "withConditions"
    /\ filtersWithConditions = {}
    /\ smallFiltersWithConditionsDFACombiner # {}
    /\ \E dfas \in Combinable(smallFiltersWithConditionsDFACombiner),
          order \in UniversalOrders(firstNFAWithConditionsSeen,
                                    universalActionsWithConditions) :
          LET lowered == lowerDFAToBytecode(combine(dfas), firstNFAWithConditionsSeen,
                                            universalActionsWithConditions, order)
          IN  /\ smallFiltersWithConditionsDFACombiner' =
                     smallFiltersWithConditionsDFACombiner \ dfas
              /\ IF lowered.fatal
                 THEN /\ pc' = "crashed"
                      /\ UNCHANGED <<client, firstNFAWithConditionsSeen>>
                 ELSE /\ client' = Append(client,
                             SinkCall("writeFiltersWithConditionsBytecode", lowered.bytecode))
                      /\ firstNFAWithConditionsSeen' = TRUE
                      /\ UNCHANGED pc
    /\ UNCHANGED <<ruleJSON, parsedRuleList, actions, actionLocations, ruleIndex,
                   universalActionsWithConditions, universalActionsWithoutConditions,
                   filtersWithConditions, filtersWithoutConditions, conditionFilters,
                   firstNFAWithoutConditionsSeen, smallFiltersWithoutConditionsDFACombiner,
                   filterCalls, result>>
    /\ UNCHANGED <<minimizeCalls, fontFaceSetVars, universalAttach>>

\* if (!firstNFAWithConditionsSeen)
needsDummyWithConditions_otherStream == ~firstNFAWithoutConditionsSeen

needsDummyWithConditions == ~firstNFAWithConditionsSeen

\* if (!firstNFAWithConditionsSeen) { ...dummy DFA... }
\* universalActionsWithConditions.clear();
FinishWithConditions ==
    /\ pc = "withConditions"
    /\ filtersWithConditions = {}
    /\ smallFiltersWithConditionsDFACombiner = {}
    /\ IF needsDummyWithConditions
       THEN \E order \in IterationOrders(universalActionsWithConditions) :
               LET dummy == dummyBytecode(universalActionsWithConditions, order)
               IN  IF dummy.fatal
                   THEN /\ pc' = "crashed"
                        /\ UNCHANGED <<client, universalActionsWithConditions>>
                   ELSE /\ client' = Append(client,
                               SinkCall("writeFiltersWithConditionsBytecode", dummy.bytecode))
                        /\ universalActionsWithConditions' = {}
                        /\ pc' = "conditionFilters"
       ELSE /\ universalActionsWithConditions' = {}
            /\ pc' = "conditionFilters"
            /\ UNCHANGED client
    /\ UNCHANGED <<ruleJSON, parsedRuleList, actions, actionLocations, ruleIndex,
                   universalActionsWithoutConditions,
                   filtersWithConditions, filtersWithoutConditions, conditionFilters,
                   firstNFAWithConditionsSeen, firstNFAWithoutConditionsSeen,
                   smallFiltersWithConditionsDFACombiner,
                   smallFiltersWithoutConditionsDFACombiner, filterCalls, result>>
    /\ UNCHANGED <<minimizeCalls, fontFaceSetVars, universalAttach>>

\* One callback of conditionFilters.processNFAs: the DFA is lowered as it is.
ProcessConditionNFA ==
    /\ pc = "conditionFilters"
    /\ conditionFilters # {}
    /\ \E nfa \in NFAs(conditionFilters), graphSize \in DFASizes :
          /\ conditionFilters' = conditionFilters \ nfa
          /\ client' = Append(client, SinkCall("writeConditionedFiltersBytecode",
                                               compile(convert(nfa, graphSize))))
    /\ UNCHANGED <<ruleJSON, parsedRuleList, actions, actionLocations, ruleIndex,
                   universalActionsWithoutConditions, universalActionsWithConditions,
                   filtersWithoutConditions, filtersWithConditions,
                   firstNFAWithoutConditionsSeen, firstNFAWithConditionsSeen,
                   smallFiltersWithoutConditionsDFACombiner,
                   smallFiltersWithConditionsDFACombiner, filterCalls, result, pc>>
    /\ UNCHANGED <<minimizeCalls, fontFaceSetVars, universalAttach>>

\* client.finalize();
finalize_skipped(sink) == sink

finalize(sink) == Append(sink, SinkCall("finalize", <<>>))

\* client.finalize(); return { };
Finalize ==
    /\ pc = "conditionFilters"
    /\ conditionFilters = {}
    /\ client' = finalize(client)
    /\ result' = NoError
    /\ pc' = "returned"
    /\ UNCHANGED <<ruleJSON, parsedRuleList, actions, actionLocations, ruleIndex,
                   universalActionsWithoutConditions, universalActionsWithConditions,
                   filtersWithoutConditions, filtersWithConditions, conditionFilters,
                   firstNFAWithoutConditionsSeen, firstNFAWithConditionsSeen,
                   smallFiltersWithoutConditionsDFACombiner,
                   smallFiltersWithConditionsDFACombiner, filterCalls>>
    /\ UNCHANGED <<minimizeCalls, fontFaceSetVars, universalAttach>>

Next ==
    \/ ParseRuleList
    \/ SerializeActions
    \/ WriteActions
    \/ PartitionRule
    \/ ReleaseRuleList
    \/ ProcessNFAWithoutConditions
    \/ CombineDFAsWithoutConditions
    \/ FinishWithoutConditions
    \/ ProcessNFAWithConditions
    \/ CombineDFAsWithConditions
    \/ FinishWithConditions
    \/ ProcessConditionNFA
    \/ Finalize

Spec == Init /\ [][Next]_vars

----------------------------------------------------------------------------
(* serializeActions on its own: the state at its call, for every rule list *)
(* of Rules up to MaxRules, and the call.                                  *)

InitActions ==
    /\ ruleJSON \in {WellFormed(rules) : rules \in SeqsUpTo(Rules, MaxRules)}
    /\ Locals
    /\ NoFontFaces
    /\ pc = "parseRuleList"

NextActions ==
    \/ ParseRuleList
    \/ SerializeActions

SpecActions == InitActions /\ [][NextActions]_vars

----------------------------------------------------------------------------
(* What the sink has received. *)

Methods == [i \in DOMAIN client |-> client[i].method]

Count(method) == Cardinality({i \in DOMAIN client : client[i].method = method})

\* the position of a sink method in the documented order of the groups
GroupOf(method) ==
    CASE method = "writeActions" -> 1
      [] method = "writeFiltersWithoutConditionsBytecode" -> 2
      [] method = "writeFiltersWithConditionsBytecode" -> 3
      [] method = "writeConditionedFiltersBytecode" -> 4
      [] method = "finalize" -> 5

Returned == pc = "returned"
Succeeded == Returned /\ result = NoError

\* the first rule of a list whose pattern addPattern does not accept (0 if none)
FirstRejected(rules) ==
    LET bad == {i \in DOMAIN rules :
                   addPatternStatus(rules[i].trigger.urlFilter) \notin {"Ok", "MatchesEverything"}}
    IN  IF bad = {} THEN 0 ELSE CHOOSE i \in bad : \A j \in bad : i <= j

\* the rule indices of the addPattern calls made so far, in call order
PatternCallIndices ==
    LET RECURSIVE pick(_)
        pick(k) == IF k > Len(filterCalls) THEN <<>>
                   ELSE IF filterCalls[k].op = "addPattern"
                        THEN <<filterCalls[k].ruleIndex>> \o pick(k + 1)
                        ELSE pick(k + 1)
    IN  pick(1)

----------------------------------------------------------------------------
(* Claims about compileRuleList, checked under Spec. *)

\* C1: the sink's calls never go back to an earlier group (writeActions,
\* unconditioned chunks, conditioned chunks, domain-condition chunks,
\* finalize), writeActions and finalize happen at most once, and a run that
\* returns success has made exactly one writeActions call, at least one
\* unconditioned and one conditioned chunk write, and exactly one finalize.
C1_SinkCallOrder ==
    /\ \A i, j \in DOMAIN client :
          i < j => GroupOf(client[i].method) <= GroupOf(client[j].method)
    /\ Count("writeActions") <= 1
    /\ Count("finalize") <= 1
    /\ Succeeded =>
          /\ Count("writeActions") = 1
          /\ Count("writeFiltersWithoutConditionsBytecode") >= 1
          /\ Count("writeFiltersWithConditionsBytecode") >= 1
          /\ Count("finalize") = 1

\* a successful run in which every group has calls, the unconditioned stream
\* real chunks and the conditioned stream only its dummy
C1_Witness ==
    /\ Succeeded
    /\ Count("writeFiltersWithoutConditionsBytecode") >= 2
    /\ Count("writeConditionedFiltersBytecode") >= 1
    /\ \E r \in Range(ruleJSON.rules) : r.trigger.conditions = <<>>

\* C2: a run that has returned returned success exactly when finalize was
\* called; finalize is called at most once, is the last sink call, and is
\* never called in a run that does not succeed.
C2_SuccessIffFinalize ==
    /\ Returned => ((result = NoError) <=> (Count("finalize") >= 1))
    /\ Count("finalize") <= 1
    /\ \A i \in DOMAIN client : client[i].method = "finalize" => i = Len(client)
    /\ result # NoError => Count("finalize") = 0

\* a successful run, with finalize as the last of its sink calls
C2_Witness ==
    /\ Succeeded
    /\ Len(client) >= 4
    /\ client[Len(client)].method = "finalize"

\* C3: for a rule list with zero rules the run succeeds with exactly these
\* sink calls: writeActions with an empty buffer, one unconditioned chunk and
\* one conditioned chunk, each the bytecode of the empty DFA, and finalize;
\* no domain-condition chunk.
C3_EmptyRuleList ==
    (ruleJSON.wellFormed /\ ruleJSON.rules = <<>>) =>
        /\ pc # "crashed"
        /\ Returned =>
              /\ result = NoError
              /\ client = <<SinkCall("writeActions", <<>>),
                            SinkCall("writeFiltersWithoutConditionsBytecode", compile(EmptyDFA)),
                            SinkCall("writeFiltersWithConditionsBytecode", compile(EmptyDFA)),
                            SinkCall("finalize", <<>>)>>
        /\ Count("writeFiltersWithoutConditionsBytecode") <= 1
        /\ Count("writeFiltersWithConditionsBytecode") <= 1
        /\ Count("writeConditionedFiltersBytecode") = 0

C3_Witness == ruleJSON.wellFormed /\ ruleJSON.rules = <<>> /\ Returned

\* C4: when some rule's pattern is rejected, the run returns
\* JSONInvalidRegex at the first such rule: addPattern was called once for
\* each rule up to that one, in list order, and for no later rule, and the
\* sink has received one writeActions call and nothing else.
C4_FirstPatternError ==
    (ruleJSON.wellFormed /\ FirstRejected(ruleJSON.rules) # 0) =>
        LET first == FirstRejected(ruleJSON.rules)
        IN  /\ pc \in {"parseRuleList", "serializeActions", "writeActions", "partition", "returned"}
            /\ \A k \in DOMAIN filterCalls : filterCalls[k].ruleIndex + 1 <= first
            /\ Count("writeActions") = Len(client)
            /\ Returned =>
                  /\ result = "JSONInvalidRegex"
                  /\ Methods = <<"writeActions">>
                  /\ PatternCallIndices = [k \in 1..first |-> k - 1]

\* a rejected pattern that is followed by another rule, after a conditioned
\* rule whose domains were already added
C4_Witness ==
    /\ ruleJSON.wellFormed
    /\ FirstRejected(ruleJSON.rules) = 2
    /\ Len(ruleJSON.rules) = 3
    /\ ruleJSON.rules[1].trigger.conditions # <<>>
    /\ Returned

\* C5: when parseRuleList fails, the run returns the parser's error and the
\* sink receives no call at all.
C5_ParseError ==
    ~ruleJSON.wellFormed =>
        /\ client = <<>>
        /\ pc \in {"parseRuleList", "returned"}
        /\ Returned => result = parseRuleList(ruleJSON).error /\ result # NoError

C5_Witness == ~ruleJSON.wellFormed /\ Returned

----------------------------------------------------------------------------
(* What serializeActions returned: the state right after its call. *)

Serialized == pc = "writeActions"

NumRules == Len(parsedRuleList)
TypeOf(i) == parsedRuleList[i].action.type
FlagsOf(i) == parsedRuleList[i].trigger.flags
TriggerOf(i) == parsedRuleList[i].trigger
SelectorOf(i) == parsedRuleList[i].action.stringArgument
Unconditioned(i) == parsedRuleList[i].trigger.conditions = <<>>
                    /\ parsedRuleList[i].trigger.conditionType = "None"
IsIgnore(i) == TypeOf(i) = "IgnorePreviousRules"
IsSelector(i) == TypeOf(i) = "CSSDisplayNoneSelector"

\* the action location of rule i (rules counted from 1)
LocationOf(i) == actionLocations[i]

\* the action-location-and-flags word of rule i before any condition flag
WordOf(i) == actionLocationAndFlagsOf(FlagsOf(i), LocationOf(i))

IgnoreBetween(i, j) == \E k \in (i + 1)..(j - 1) : IsIgnore(k)
NonIgnoreBetween(i, j) == \E k \in (i + 1)..(j - 1) : ~IsIgnore(k)

\* two rules without conditions, of the same dedup-able type, same flags
SameDedupKey(i, j) ==
    /\ Unconditioned(i) /\ Unconditioned(j)
    /\ TypeOf(i) = TypeOf(j)
    /\ TypeOf(i) \in DedupableTypes
    /\ FlagsOf(i) = FlagsOf(j)

\* reading a selector entry back from the action buffer at a byte offset
ByteAt(offset) == actions[offset + 1]
EntryLength(offset) ==
    ByteAt(offset + 1) + 256 * ByteAt(offset + 2) + 65536 * ByteAt(offset + 3)
        + 16777216 * ByteAt(offset + 4)
EntryIsWide(offset) == ByteAt(offset + 5) # 0
EntryChars(offset) ==
    [k \in 1..EntryLength(offset) |->
        IF EntryIsWide(offset)
        THEN ByteAt(offset + 6 + 2 * (k - 1)) + 256 * ByteAt(offset + 7 + 2 * (k - 1))
        ELSE ByteAt(offset + 5 + k)]

\* the code units of the ','-join of the selectors of the rules at the given
\* indices, lowest index first
RECURSIVE JoinedSelectors(_)
JoinedSelectors(indices) ==
    IF indices = {} THEN <<>>
    ELSE LET last == CHOOSE i \in indices : \A j \in indices : j <= i
             rest == indices \ {last}
         IN  IF rest = {} THEN SelectorOf(last).chars
             ELSE JoinedSelectors(rest) \o <<Comma>> \o SelectorOf(last).chars

\* the unconditioned selector rules with the Trigger of rule i
SameTriggerSelectors(i) ==
    {j \in 1..NumRules : IsSelector(j) /\ Unconditioned(j) /\ TriggerOf(j) = TriggerOf(i)}

\* those of them that no IgnorePreviousRules rule separates from rule i
SelectorGroup(i) ==
    {j \in SameTriggerSelectors(i) :
        IF j < i THEN ~IgnoreBetween(j, i) ELSE ~IgnoreBetween(i, j)}

----------------------------------------------------------------------------
(* Claims about serializeActions, checked under SpecActions. *)

\* C6 as stated: any two rules without conditions, of the same dedup-able
\* type and flags, have the same action location and the same word, wherever
\* they sit in the list.
C6_Original ==
    Serialized =>
        \A i, j \in 1..NumRules :
            SameDedupKey(i, j) => LocationOf(i) = LocationOf(j) /\ WordOf(i) = WordOf(j)

\* C6, amended: two such rules have the same action location and the same
\* word when no IgnorePreviousRules rule lies between them (for BlockLoad,
\* BlockCookies and MakeHTTPS), or when no rule of another type lies between
\* them (for IgnorePreviousRules).
C6_DedupWithinSegment ==
    Serialized =>
        \A i, j \in 1..NumRules :
            (/\ i < j
             /\ SameDedupKey(i, j)
             /\ IF IsIgnore(i) THEN ~NonIgnoreBetween(i, j) ELSE ~IgnoreBetween(i, j))
            => LocationOf(i) = LocationOf(j) /\ WordOf(i) = WordOf(j)

\* two rules with the same dedup key and a rule of another kind in between
C6_Witness ==
    /\ Serialized
    /\ NumRules = 3
    /\ SameDedupKey(1, 3)
    /\ TypeOf(1) = "MakeHTTPS"
    /\ TypeOf(2) = "BlockLoad"
    /\ LocationOf(1) = LocationOf(3)

\* C7 as stated: all unconditioned selector rules with an identical Trigger
\* share one action location, where the ','-join of all their selectors, in
\* list order, is serialized.
C7_Original ==
    Serialized =>
        \A i \in 1..NumRules :
            (IsSelector(i) /\ Unconditioned(i)) =>
                /\ \A j \in SameTriggerSelectors(i) : LocationOf(j) = LocationOf(i)
                /\ LocationOf(i) < Len(actions)
                /\ EntryChars(LocationOf(i)) = JoinedSelectors(SameTriggerSelectors(i))

\* C7, amended: the unconditioned selector rules with an identical Trigger
\* that no IgnorePreviousRules rule separates share one action location,
\* no other rule has that location, and the entry there is a selector entry
\* holding the ','-join of exactly those rules' selectors in list order.
C7_SelectorsJoinedWithinSegment ==
    Serialized =>
        \A i \in 1..NumRules :
            (IsSelector(i) /\ Unconditioned(i)) =>
                /\ \A j \in 1..NumRules :
                      LocationOf(j) = LocationOf(i) <=> j \in SelectorGroup(i)
                /\ LocationOf(i) + 5 < Len(actions)
                /\ ByteAt(LocationOf(i)) = SerializedActionByte("CSSDisplayNoneSelector")
                /\ EntryLength(LocationOf(i)) = Len(JoinedSelectors(SelectorGroup(i)))
                /\ LocationOf(i) + 6 + (IF EntryIsWide(LocationOf(i)) THEN 2 ELSE 1)
                      * EntryLength(LocationOf(i)) <= Len(actions)
                /\ EntryChars(LocationOf(i)) = JoinedSelectors(SelectorGroup(i))

\* two different selectors of one Trigger joined, around a rule of another
\* Trigger
C7_Witness ==
    /\ Serialized
    /\ NumRules = 3
    /\ IsSelector(1) /\ IsSelector(2) /\ IsSelector(3)
    /\ Unconditioned(1) /\ Unconditioned(2)
    /\ TriggerOf(1) = TriggerOf(3)
    /\ TriggerOf(1) # TriggerOf(2)
    /\ SelectorOf(1) = SelectorW /\ SelectorOf(3) = SelectorA
    /\ LocationOf(1) = LocationOf(3)

\* C8: two unconditioned rules of the same type among BlockLoad,
\* BlockCookies and MakeHTTPS, with identical flags, that have an
\* IgnorePreviousRules rule between them have different action locations,
\* each holding an entry of that type.
C8_IgnoreSeparatesDedup ==
    Serialized =>
        \A i, j \in 1..NumRules :
            (/\ i < j
             /\ SameDedupKey(i, j)
             /\ ~IsIgnore(i)
             /\ IgnoreBetween(i, j))
            => /\ LocationOf(i) # LocationOf(j)
               /\ LocationOf(i) < Len(actions) /\ LocationOf(j) < Len(actions)
               /\ ByteAt(LocationOf(i)) = SerializedActionByte(TypeOf(i))
               /\ ByteAt(LocationOf(j)) = SerializedActionByte(TypeOf(j))

\* block, ignore-previous-rules, block with identical flags
C8_Witness ==
    /\ Serialized
    /\ NumRules = 3
    /\ TypeOf(1) = "BlockLoad" /\ TypeOf(3) = "BlockLoad"
    /\ SameDedupKey(1, 3)
    /\ IsIgnore(2)

\* C9: for every IgnorePreviousRules rule, every selector rule before it has
\* an action location strictly below that rule's, and no selector rule after
\* it shares an action location with a selector rule before it.
C9_IgnoreFlushesSelectors ==
    Serialized =>
        \A k \in 1..NumRules :
            IsIgnore(k) =>
                /\ \A i \in 1..(k - 1) : IsSelector(i) => LocationOf(i) < LocationOf(k)
                /\ \A i \in 1..(k - 1), j \in (k + 1)..NumRules :
                      (IsSelector(i) /\ IsSelector(j)) => LocationOf(i) # LocationOf(j)

\* selector, ignore-previous-rules, selector with one Trigger
C9_Witness ==
    /\ Serialized
    /\ NumRules = 3
    /\ IsSelector(1) /\ IsSelector(3) /\ IsIgnore(2)
    /\ Unconditioned(1)
    /\ TriggerOf(1) = TriggerOf(3)

\* C10: two unconditioned IgnorePreviousRules rules with identical flags
\* share an action location exactly when every rule between them is an
\* IgnorePreviousRules rule.
C10_IgnoreRunsShare ==
    Serialized =>
        \A i, j \in 1..NumRules :
            (i < j /\ IsIgnore(i) /\ SameDedupKey(i, j))
            => (LocationOf(i) = LocationOf(j) <=> ~NonIgnoreBetween(i, j))

\* two such rules around a conditioned IgnorePreviousRules rule, sharing
C10_Witness ==
    /\ Serialized
    /\ NumRules = 3
    /\ IsIgnore(1) /\ IsIgnore(2) /\ IsIgnore(3)
    /\ SameDedupKey(1, 3)
    /\ ~Unconditioned(2)
    /\ LocationOf(1) = LocationOf(3)

\* the four maps from resource flags to action locations
DedupMapsOf(s) ==
    <<s.blockLoadActionsMap, s.blockCookiesActionsMap, s.ignorePreviousRuleActionsMap,
      s.makeHTTPSActionsMap>>

\* map `after` holds nothing that map `before` did not hold
NothingAdded(before, after) ==
    /\ DOMAIN after \subseteq DOMAIN before
    /\ \A f \in DOMAIN after : after[f] = before[f]


ConditionedPlain(k) == ~Unconditioned(k) /\ ~IsSelector(k)

\* C11: a rule with conditions whose action is not a selector gets a new
\* one-byte entry (its type) at the end of the buffer; the iteration that
\* serializes it adds nothing to the four dedup maps and does not take its
\* location from them; in the result no other rule has its location.
C11_ConditionedSerializedAlone ==
    Serialized =>
        \A k \in 1..NumRules :
            ConditionedPlain(k) =>
                /\ \A j \in 1..NumRules : j # k => LocationOf(j) # LocationOf(k)
                /\ LocationOf(k) < Len(actions)
                /\ ByteAt(LocationOf(k)) = SerializedActionByte(TypeOf(k))
                /\ \A s \in statesAfter(parsedRuleList, k - 1) :
                      \A order \in (IF IsIgnore(k) THEN SlotOrders(s) ELSE {<<>>}) :
                          LET after == serializeRule(s, parsedRuleList[k], order)
                          IN  /\ after.actionLocations[k] = Len(after.actions) - 1
                              /\ after.actions[Len(after.actions)] = SerializedActionByte(TypeOf(k))
                              /\ \A m \in 1..4 :
                                    /\ NothingAdded(DedupMapsOf(s)[m], DedupMapsOf(after)[m])
                                    /\ \A f \in DOMAIN DedupMapsOf(s)[m] :
                                          DedupMapsOf(s)[m][f] # after.actionLocations[k]

\* a conditioned BlockLoad rule between two unconditioned BlockLoad rules
\* with its flags
C11_Witness ==
    /\ Serialized
    /\ NumRules = 3
    /\ ConditionedPlain(2)
    /\ TypeOf(1) = "BlockLoad" /\ TypeOf(2) = "BlockLoad" /\ TypeOf(3) = "BlockLoad"
    /\ Unconditioned(1) /\ Unconditioned(3)
    /\ FlagsOf(1) = FlagsOf(2) /\ FlagsOf(2) = FlagsOf(3)

\* the entry at a byte offset is a complete selector entry
SelectorEntryAt(offset) ==
    /\ offset + 5 < Len(actions)
    /\ ByteAt(offset) = SerializedActionByte("CSSDisplayNoneSelector")
    /\ offset + 6 + (IF EntryIsWide(offset) THEN 2 ELSE 1) * EntryLength(offset) <= Len(actions)

\* C12 as stated: selector rules with conditions and an identical Trigger
\* share one action location, where the ','-join of their selectors is.
C12_Original ==
    Serialized =>
        \A i, j \in 1..NumRules :
            (/\ IsSelector(i) /\ IsSelector(j)
             /\ ~Unconditioned(i)
             /\ TriggerOf(i) = TriggerOf(j))
            => /\ LocationOf(i) = LocationOf(j)
               /\ SelectorEntryAt(LocationOf(i))
               /\ EntryChars(LocationOf(i)) =
                     JoinedSelectors({n \in 1..NumRules :
                                         IsSelector(n) /\ TriggerOf(n) = TriggerOf(i)})

\* C12, amended: a selector rule with conditions is not batched: its action
\* location is shared with no other rule, whatever the Triggers, and holds
\* a selector entry with exactly its own selector.
C12_ConditionedSelectorsNotBatched ==
    Serialized =>
        \A k \in 1..NumRules :
            (IsSelector(k) /\ ~Unconditioned(k)) =>
                /\ \A j \in 1..NumRules : j # k => LocationOf(j) # LocationOf(k)
                /\ SelectorEntryAt(LocationOf(k))
                /\ EntryIsWide(LocationOf(k)) = ~SelectorOf(k).is8Bit
                /\ EntryChars(LocationOf(k)) = SelectorOf(k).chars

\* two conditioned selector rules with one Trigger and different selectors
C12_Witness ==
    /\ Serialized
    /\ NumRules = 2
    /\ IsSelector(1) /\ IsSelector(2)
    /\ ~Unconditioned(1)
    /\ TriggerOf(1) = TriggerOf(2)
    /\ SelectorOf(1) # SelectorOf(2)

\* the rules whose location is the sentinel in the locals s
Parked(s) == {j \in DOMAIN s.actionLocations : s.actionLocations[j] = UINT_MAX}

\* the rules recorded as clients of a slot of the pending map in the locals s
Clients(s) ==
    UNION {{c + 1 : c \in Range(s.cssDisplayNoneActionsMap[t].clientLocations)} :
               t \in DOMAIN s.cssDisplayNoneActionsMap}

\* C13: when serializeActions returns there is one location per rule, none is
\* the UINT_MAX sentinel and each is an offset below the size of the action
\* buffer; during the loop the rules holding the sentinel are exactly the
\* clients of the pending selector map, and none is left after an
\* IgnorePreviousRules rule.
C13_NoSentinelLeft ==
    Serialized =>
        /\ Len(actionLocations) = NumRules
        /\ \A k \in 1..NumRules :
              /\ LocationOf(k) # UINT_MAX
              /\ LocationOf(k) >= 0
              /\ LocationOf(k) < Len(actions)
        /\ \A k \in 0..NumRules :
              \A s \in statesAfter(parsedRuleList, k) :
                  /\ Parked(s) = Clients(s)
                  /\ (k > 0 /\ IsIgnore(k)) => Parked(s) = {}

\* one selector group flushed by an IgnorePreviousRules rule and one by the
\* final flush
C13_Witness ==
    /\ Serialized
    /\ NumRules = 3
    /\ IsSelector(1) /\ Unconditioned(1)
    /\ IsIgnore(2)
    /\ IsSelector(3) /\ Unconditioned(3)
    /\ LocationOf(1) < LocationOf(2)
    /\ LocationOf(2) < LocationOf(3)

----------------------------------------------------------------------------
(* Claims about the bytecode streams, checked under Spec. *)

\* the sink method of the stream a pattern graph is lowered to
StreamMethod(filters) ==
    IF filters = "withoutConditions" THEN "writeFiltersWithoutConditionsBytecode"
    ELSE "writeFiltersWithConditionsBytecode"

\* the positions in the sink of the chunks written by a method, and the
\* first of them
ChunksOf(method) == {i \in DOMAIN client : client[i].method = method}
FirstChunkOf(method) == CHOOSE i \in ChunksOf(method) : \A j \in ChunksOf(method) : i <= j

\* the number of times a word is among the root actions of the chunk at a
\* position of the sink
RootCount(i, word) ==
    Cardinality({n \in DOMAIN client[i].data.rootActions : client[i].data.rootActions[n] = word})

\* the addPattern calls made so far that reported MatchesEverything
UniversalCalls ==
    {n \in DOMAIN filterCalls :
        /\ filterCalls[n].op = "addPattern"
        /\ addPatternStatus(filterCalls[n].pattern) = "MatchesEverything"}

\* C14: a rule whose pattern is reported as MatchesEverything is not the rule
\* compilation fails at, its pattern is in no chunk's filters, and when
\* compilation succeeds its word is once among the root actions of the first
\* chunk of its own stream (the dummy DFA's when the stream has no other) and
\* among the root actions of no other chunk of any stream.
C14_UniversalOnFirstDFA ==
    \A n \in UniversalCalls :
        LET call == filterCalls[n]
            own == StreamMethod(call.filters)
        IN  /\ pc = "partition" => ruleIndex > call.ruleIndex
            /\ result = "JSONInvalidRegex" =>
                  \E m \in DOMAIN filterCalls :
                      m > n /\ filterCalls[m].op = "addPattern"
            /\ \A i \in DOMAIN client :
                  client[i].method # "writeActions" /\ client[i].method # "finalize" =>
                      \A f \in client[i].data.filters : f.pattern # call.pattern
            /\ Succeeded =>
                  /\ ChunksOf(own) # {}
                  /\ RootCount(FirstChunkOf(own), call.action) = 1
                  /\ \A i \in DOMAIN client :
                        (/\ client[i].method # "writeActions"
                         /\ client[i].method # "finalize"
                         /\ i # FirstChunkOf(own))
                        => RootCount(i, call.action) = 0

\* a successful compilation with a universal rule in a stream of two chunks
C14_Witness ==
    /\ Succeeded
    /\ \E n \in UniversalCalls :
          /\ Cardinality(ChunksOf(StreamMethod(filterCalls[n].filters))) = 2
          /\ filterCalls[n].filters = "withoutConditions"

\* some rule handed a condition domain to conditionFilters
DomainAdded == \E n \in DOMAIN filterCalls : filterCalls[n].op = "addDomain"

\* C15 as stated: a successful compilation writes at least one chunk to each
\* of the three streams.
C15_Original ==
    Succeeded =>
        /\ Count("writeFiltersWithoutConditionsBytecode") >= 1
        /\ Count("writeFiltersWithConditionsBytecode") >= 1
        /\ Count("writeConditionedFiltersBytecode") >= 1

\* C15, amended: a successful compilation writes at least one chunk to the
\* unconditioned and to the conditioned stream, a stream without filters
\* getting the chunk of an empty DFA; the domain-condition stream gets a
\* chunk exactly when some rule has a condition domain.
C15_ChunkPerPatternStream ==
    Succeeded =>
        /\ Count("writeFiltersWithoutConditionsBytecode") >= 1
        /\ Count("writeFiltersWithConditionsBytecode") >= 1
        /\ (Count("writeConditionedFiltersBytecode") >= 1) <=> DomainAdded
        /\ \A kind \in {"withoutConditions", "withConditions"} :
              (\A n \in DOMAIN filterCalls :
                   filterCalls[n].filters = kind => addPatternStatus(filterCalls[n].pattern) # "Ok")
              => /\ Cardinality(ChunksOf(StreamMethod(kind))) = 1
                 /\ client[FirstChunkOf(StreamMethod(kind))].data.filters = {}

\* a successful compilation of unconditioned rules only: the unconditioned
\* stream has a chunk with filters, the conditioned one the dummy chunk, the
\* domain-condition one nothing
C15_Witness ==
    /\ Succeeded
    /\ filterCalls # <<>>
    /\ \A n \in DOMAIN filterCalls : filterCalls[n].filters = "withoutConditions"
    /\ client[FirstChunkOf("writeFiltersWithoutConditionsBytecode")].data.filters # {}
    /\ Count("writeFiltersWithConditionsBytecode") = 1
    /\ Count("writeConditionedFiltersBytecode") = 0

----------------------------------------------------------------------------
(* Claims about the partition loop, checked under Spec. *)

\* the rule list and the action locations are still there
Partitioning == pc = "partition" \/ (Returned /\ result = "JSONInvalidRegex")

\* the rule an addPattern or addDomain call was made for
RuleOfCall(n) == parsedRuleList[filterCalls[n].ruleIndex + 1]

\* the rule of a call has conditions of type IfDomain
IfDomainCall(n) ==
    /\ RuleOfCall(n).trigger.conditions # <<>>
    /\ RuleOfCall(n).trigger.conditionType = "IfDomain"

\* the IfConditionFlag bit of the high half of a word
IfConditionFlagSet(word) == (word.high \div IfConditionFlagHigh) % 2 = 1

\* the words handed to addPattern or addDomain so far
WordsHandedOver == {filterCalls[n].action : n \in DOMAIN filterCalls}

\* C16 as stated: the low half of every word handed over is the rule's
\* action location, the high half is exactly the rule's flags, and the
\* IfConditionFlag bit is set exactly when the conditionType is IfDomain.
C16_Original ==
    Partitioning =>
        \A n \in DOMAIN filterCalls :
            /\ filterCalls[n].action.low = actionLocations[filterCalls[n].ruleIndex + 1]
            /\ filterCalls[n].action.high = RuleOfCall(n).trigger.flags
            /\ IfConditionFlagSet(filterCalls[n].action)
                  <=> RuleOfCall(n).trigger.conditionType = "IfDomain"

\* C16, amended: the low half of every word handed to addPattern or
\* addDomain is the rule's action location; the high half is the rule's
\* flags, plus the IfConditionFlag bit exactly when the rule has conditions
\* of type IfDomain; and the universal action sets hold only such words.
C16_WordLayout ==
    Partitioning =>
        /\ \A n \in DOMAIN filterCalls :
              /\ filterCalls[n].action.low = actionLocations[filterCalls[n].ruleIndex + 1]
              /\ filterCalls[n].action.high % IfConditionFlagHigh = RuleOfCall(n).trigger.flags
              /\ filterCalls[n].action.high < 2 * IfConditionFlagHigh
              /\ IfConditionFlagSet(filterCalls[n].action) <=> IfDomainCall(n)
        /\ universalActionsWithoutConditions \cup universalActionsWithConditions
              \subseteq WordsHandedOver

\* an IfDomain rule's word has reached conditionFilters, and an
\* unconditioned rule's word a universal action set
C16_Witness ==
    /\ Partitioning
    /\ universalActionsWithoutConditions # {}
    /\ \E n \in DOMAIN filterCalls :
          /\ filterCalls[n].op = "addDomain"
          /\ IfDomainCall(n)
          /\ RuleOfCall(n).trigger.flags # 0

\* the addPattern calls made so far for the rule at an index
PatternCallsFor(index) ==
    {n \in DOMAIN filterCalls :
        filterCalls[n].op = "addPattern" /\ filterCalls[n].ruleIndex = index}

\* the words of the calls made for rules with conditions
ConditionedWords ==
    {filterCalls[n].action : n \in {m \in DOMAIN filterCalls :
                                       filterCalls[m].filters # "withoutConditions"}}

\* the words the unconditioned side holds: its graph, its universal set, its
\* combiner and the chunks of its stream
UnconditionedWords ==
    {f.action : f \in filtersWithoutConditions}
    \cup universalActionsWithoutConditions
    \cup UNION {{f.action : f \in d.filters} : d \in smallFiltersWithoutConditionsDFACombiner}
    \cup UNION {{f.action : f \in client[i].data.filters} \cup Range(client[i].data.rootActions) :
                   i \in ChunksOf("writeFiltersWithoutConditionsBytecode")}

\* C17: every rule the partition loop has reached has had its pattern added
\* by exactly one addPattern call, to the unconditioned graph iff its
\* conditions are empty and to the conditioned graph otherwise; and no word
\* of a rule with conditions is ever in the unconditioned graph, universal
\* set, combiner or chunks.
C17_Partitioning ==
    /\ Partitioning =>
          /\ \A index \in 0..(Len(parsedRuleList) - 1) :
                Cardinality(PatternCallsFor(index)) = (IF index < ruleIndex THEN 1 ELSE
                                                       IF index = ruleIndex /\ Returned THEN 1 ELSE 0)
          /\ \A n \in DOMAIN filterCalls :
                /\ filterCalls[n].op = "addPattern" =>
                      (filterCalls[n].filters = "withoutConditions"
                          <=> RuleOfCall(n).trigger.conditions = <<>>)
                /\ filterCalls[n].op = "addPattern" =>
                      (filterCalls[n].filters = "withConditions"
                          <=> RuleOfCall(n).trigger.conditions # <<>>)
                /\ filterCalls[n].op = "addDomain" => RuleOfCall(n).trigger.conditions # <<>>
    /\ ConditionedWords \cap UnconditionedWords = {}

\* a successful compilation of rules with and without conditions, each kind
\* with a pattern in its graph
C17_Witness ==
    /\ Succeeded
    /\ \E n, m \in DOMAIN filterCalls :
          /\ filterCalls[n].filters = "withoutConditions"
          /\ filterCalls[m].filters = "withConditions"
          /\ addPatternStatus(filterCalls[n].pattern) = "Ok"
          /\ addPatternStatus(filterCalls[m].pattern) = "Ok"

----------------------------------------------------------------------------
(* Claims about the layout of the action buffer, checked under            *)
(* SpecActions and SpecSelector.                                           *)

\* the size the layout gives the entry at an offset, read from the buffer:
\* 1 byte, or for a selector entry 1 + 4 + 1 + length * w; an entry whose
\* header does not fit runs past the end of the buffer
EntrySize(offset) ==
    IF ByteAt(offset) # SerializedActionByte("CSSDisplayNoneSelector") THEN 1
    ELSE IF offset + 5 >= Len(actions) THEN Len(actions) + 1 - offset
    ELSE 1 + 4 + 1 + EntryLength(offset) * (IF EntryIsWide(offset) THEN 2 ELSE 1)

\* the offsets at which entries start when the buffer is read entry by
\* entry from the given offset
RECURSIVE EntryStartsFrom(_)
EntryStartsFrom(offset) ==
    IF offset >= Len(actions) THEN {}
    ELSE {offset} \cup EntryStartsFrom(offset + EntrySize(offset))

EntryStarts == EntryStartsFrom(0)

\* the sum of the sizes of the entries at the given offsets
RECURSIVE SizeSum(_)
SizeSum(offsets) ==
    IF offsets = {} THEN 0
    ELSE LET o == CHOOSE x \in offsets : TRUE
         IN  EntrySize(o) + SizeSum(offsets \ {o})

\* the rules whose action location is that of rule k
SharingLocation(k) == {j \in 1..NumRules : LocationOf(j) = LocationOf(k)}

\* C18: read entry by entry with the sizes of the layout (1 byte, or
\* 1 + 4 + 1 + length * w for a selector entry), the action buffer is
\* covered exactly; every rule's location is the start of an entry of its
\* type and the sum of the sizes of the entries before it; a selector entry
\* has the length of the selectors joined in it and w = 2 iff one of them is
\* wide; and every entry is some rule's.
C18_Layout ==
    Serialized =>
        /\ SizeSum(EntryStarts) = Len(actions)
        /\ \A o \in EntryStarts : \E k \in 1..NumRules : LocationOf(k) = o
        /\ \A k \in 1..NumRules :
              /\ LocationOf(k) \in EntryStarts
              /\ LocationOf(k) = SizeSum({o \in EntryStarts : o < LocationOf(k)})
              /\ ByteAt(LocationOf(k)) = SerializedActionByte(TypeOf(k))
              /\ ~IsSelector(k) => EntrySize(LocationOf(k)) = 1
              /\ IsSelector(k) =>
                    LET w == IF \E j \in SharingLocation(k) : ~SelectorOf(j).is8Bit
                             THEN 2 ELSE 1
                        length == Len(JoinedSelectors(SharingLocation(k)))
                    IN  /\ EntryLength(LocationOf(k)) = length
                        /\ EntrySize(LocationOf(k)) = 1 + 4 + 1 + length * w

\* a wide selector entry, a one-byte entry and an 8-bit selector entry, one
\* after the other
C18_Witness ==
    /\ Serialized
    /\ NumRules = 3
    /\ IsSelector(1) /\ ~SelectorOf(1).is8Bit
    /\ ~IsSelector(2)
    /\ IsSelector(3) /\ SelectorOf(3).is8Bit
    /\ LocationOf(1) = 0
    /\ LocationOf(2) = 10
    /\ LocationOf(3) = 11
    /\ Len(actions) = 19

----------------------------------------------------------------------------
(* serializeSelector on its own: the call of line 134 for every selector   *)
(* string up to MaxSelectorLength code units, 8-bit or wide, at the start  *)
(* of the buffer or after another entry.                                   *)

MaxSelectorLength == 2

\* the code units 8-bit and wide selectors are made of: ',' '.' and the
\* largest Latin-1 unit; 'a', the smallest unit that needs two bytes and
\* the largest
SelectorChars8 == {44, 46, 255}
SelectorChars16 == {97, 256, 65535}

\* ".ad,.promo"
AdPromo == <<46, 97, 100, 44, 46, 112, 114, 111, 109, 111>>

SelectorStrings ==
    {String8(chars) : chars \in SeqsUpTo(SelectorChars8, MaxSelectorLength) \cup {AdPromo}}
    \cup {String16(chars) : chars \in SeqsUpTo(SelectorChars16, MaxSelectorLength) \cup {AdPromo}}

ConditionedTrigger == Trigger("a", FALSE, 0, <<"d">>, "IfDomain")

InitSelector ==
    /\ ruleJSON \in
          {WellFormed(prefix \o <<ContentExtensionRule(ConditionedTrigger,
                                      Action("CSSDisplayNoneSelector", selector))>>) :
              prefix \in {<<>>, <<ContentExtensionRule(ConditionedTrigger,
                                      Action("BlockLoad", NullString))>>},
              selector \in SelectorStrings}
    /\ Locals
    /\ NoFontFaces
    /\ pc = "parseRuleList"

SpecSelector == InitSelector /\ [][NextActions]_vars

\* C19: decoding the bytes serializeSelector appended for a selector, by the
\* entry layout, gives the type CSSDisplayNoneSelector, the selector's
\* length, its width, and its code units one for one; the entry ends where
\* the buffer ends.
C19_SelectorRoundTrip ==
    Serialized =>
        LET offset == LocationOf(NumRules)
            selector == SelectorOf(NumRules)
        IN  /\ offset + 5 < Len(actions)
            /\ ActionTypes[ByteAt(offset) + 1] = "CSSDisplayNoneSelector"
            /\ EntryLength(offset) = Len(selector.chars)
            /\ EntryIsWide(offset) = ~selector.is8Bit
            /\ offset + EntrySize(offset) = Len(actions)
            /\ EntryChars(offset) = selector.chars

\* ".ad,.promo" stored wide, serialized after another entry
C19_Witness ==
    /\ Serialized
    /\ NumRules = 2
    /\ SelectorOf(2) = String16(AdPromo)
    /\ LocationOf(2) = 1
    /\ Len(actions) = 27

----------------------------------------------------------------------------
(* Claims about the iteration orders of the hash tables, checked under     *)
(* Spec.                                                                   *)

\* the words of the rules of a pattern graph reported as MatchesEverything
UniversalWords(kind) ==
    {filterCalls[n].action : n \in {m \in UniversalCalls : filterCalls[m].filters = kind}}

\* the bytes of the entry of rule i in a result of serializeActions, taken
\* with the size the entry has in the buffer of this run
EntryBytesIn(r, i) ==
    SubSeq(r.actions, r.actionLocations[i] + 1,
           r.actionLocations[i] + EntrySize(LocationOf(i)))

----------------------------------------------------------------------------
(* addUniversalActionsToDFA on its own, up to the limit of the root's      *)
(* 16-bit length.  The sets near the limit are too large to keep in a      *)
(* state, so the state keeps what the call was given and what it left in   *)
(* the DFA by their sizes and ends.                                        *)

MaxUniversalActions == 40
MaxDFAActions == 2

\* the numbers of universal actions: the small ones and those around
\* std::numeric_limits<uint16_t>::max()
UniversalCounts ==
    (0..MaxUniversalActions) \cup {UINT16_MAX - 1, UINT16_MAX, UINT16_MAX + 1}

\* the word of a rule without flags whose action is at a location
UniversalRuleWord(index) == actionLocationAndFlagsOf(0, index)

\* a DFA whose nodes other than the root have some actions already
DFAWithActions(k) ==
    [EmptyDFA EXCEPT !.actions = [i \in 1..k |-> actionLocationAndFlagsOf(1, i - 1)]]

\* what a call of addUniversalActionsToDFA was given and what it gave
AttachCall(dfa, universalActions, order) ==
    LET attached == addUniversalActionsToDFA(dfa, universalActions, order)
    IN  [universalActions |-> Cardinality(universalActions),
         first |-> IF order = <<>> THEN <<>> ELSE <<order[1]>>,
         actionsBefore |-> Len(dfa.actions),
         fatal |-> attached.fatal,
         actionsAfter |-> Len(attached.dfa.actions),
         rootActionsStart |-> attached.dfa.rootActionsStart,
         rootActionsLength |-> attached.dfa.rootActionsLength,
         rootActionsAreUniversal |->
             Range(rootActions(attached.dfa)) = universalActions]

\* addUniversalActionsToDFA(dfa, universalActions) for some DFA and some set
AddUniversalActionsToDFA ==
    /\ universalAttach = <<>>
    /\ \E n \in UniversalCounts, k \in 0..MaxDFAActions :
          LET universalActions == {UniversalRuleWord(i) : i \in 0..(n - 1)}
          IN  \E order \in IterationOrders(universalActions) :
                 universalAttach' =
                     <<AttachCall(DFAWithActions(k), universalActions, order)>>
    /\ UNCHANGED <<compilerVars, fontFaceSetVars>>

InitUniversal ==
    /\ ruleJSON = Malformed
    /\ Locals
    /\ NoFontFaces
    /\ pc = "parseRuleList"

SpecUniversal == InitUniversal /\ [][AddUniversalActionsToDFA]_vars

\* C21 as stated: attaching the universal actions is fatal exactly when
\* their number exceeds 65535, and any smaller number is attached with the
\* root's action length set to it.
C21_Original ==
    universalAttach # <<>> =>
        LET call == universalAttach[1]
        IN  /\ call.fatal <=> call.universalActions > UINT16_MAX
            /\ ~call.fatal /\ call.universalActions > 0 =>
                  call.rootActionsLength = call.universalActions

----------------------------------------------------------------------------
(* Claims about the lowering of the DFAs, checked under Spec. *)

PatternStreams == {"withoutConditions", "withConditions"}

\* the combiner of a pattern graph, and what the graph still holds
CombinerOf(kind) ==
    IF kind = "withoutConditions" THEN smallFiltersWithoutConditionsDFACombiner
    ELSE smallFiltersWithConditionsDFACombiner
FiltersOf(kind) ==
    IF kind = "withoutConditions" THEN filtersWithoutConditions ELSE filtersWithConditions

\* the chunks written to a stream, and the minimize calls of a pattern
\* graph, each in the order made
StreamChunks(kind) ==
    LET written(call) == call.method = StreamMethod(kind)
    IN  SelectSeq(client, written)
MinimizeCallsOf(kind) ==
    LET made(call) == call.filters = kind
    IN  SelectSeq(minimizeCalls, made)

\* C22: in each pattern stream the combiner only ever holds unminimized DFAs
\* of graph size below smallDFASize; every minimized DFA has graph size
\* smallDFASize or more, shares no filter with a DFA of the combiner, and is
\* the stream's chunk written in the same callback (the k-th minimize call
\* gives the k-th chunk); and the chunks made by combineDFAs are written
\* once the graph is exhausted, after every such chunk.
C22_SmallDFAsCombined ==
    pc # "crashed" =>
        \A kind \in PatternStreams :
            LET chunks == StreamChunks(kind)
                calls == MinimizeCallsOf(kind)
            IN  /\ \A d \in CombinerOf(kind) :
                      d.graphSize < smallDFASize /\ ~d.minimized
                /\ \A k \in DOMAIN calls :
                      /\ calls[k].graphSize >= smallDFASize
                      /\ \A d \in CombinerOf(kind) : d.filters \cap calls[k].nfa = {}
                      /\ k <= Len(chunks)
                      /\ chunks[k].data.minimized
                      /\ chunks[k].data.filters = calls[k].nfa
                /\ \A k \in DOMAIN chunks :
                      k > Len(calls) =>
                          /\ ~chunks[k].data.minimized
                          /\ FiltersOf(kind) = {}
                          /\ \A c \in DOMAIN calls : chunks[k].data.filters \cap calls[c].nfa = {}

\* a stream with a chunk lowered in the processNFAs callback and then a
\* chunk made by combineDFAs
C22_Witness ==
    /\ Succeeded
    /\ Len(MinimizeCallsOf("withoutConditions")) = 1
    /\ Len(StreamChunks("withoutConditions")) = 2
    /\ StreamChunks("withoutConditions")[2].data.filters # {}

\* C23: no DFA waiting in a combiner has root actions; the root actions of
\* the first chunk of a pattern stream are the stream's universal actions
\* and nothing else, and every later chunk of the stream and every
\* domain-condition chunk has none.
C23_RootActionsAreUniversal ==
    /\ \A kind \in PatternStreams :
          /\ \A d \in CombinerOf(kind) : d.rootActionsLength = 0 /\ rootActions(d) = <<>>
          /\ \A k \in DOMAIN StreamChunks(kind) :
                LET root == StreamChunks(kind)[k].data.rootActions
                IN  /\ Range(root) \subseteq UniversalWords(kind)
                    /\ k = 1 => Len(root) = Cardinality(UniversalWords(kind))
                    /\ k > 1 => root = <<>>
    /\ \A i \in ChunksOf("writeConditionedFiltersBytecode") :
          client[i].data.rootActions = <<>>

\* a conditioned stream whose first chunk has filters and a universal
\* action, followed by another chunk, and a domain-condition chunk
C23_Witness ==
    /\ Succeeded
    /\ Len(StreamChunks("withConditions")) = 2
    /\ StreamChunks("withConditions")[1].data.filters # {}
    /\ StreamChunks("withConditions")[1].data.rootActions # <<>>
    /\ ChunksOf("writeConditionedFiltersBytecode") # {}

\* some bytecode chunk has been written
ChunkWritten ==
    \E i \in DOMAIN client :
        client[i].method # "writeActions" /\ client[i].method # "finalize"

\* C24: once writeActions is called the local action buffer is empty; once
\* any chunk is written the parsed rule list and the action locations are
\* empty; once a chunk of the conditioned stream is written the
\* unconditioned universal action set is empty, and once a domain-condition
\* chunk is written or finalize is called so is the conditioned one.
C24_EarlyRelease ==
    /\ Count("writeActions") >= 1 => actions = <<>>
    /\ ChunkWritten => parsedRuleList = <<>> /\ actionLocations = <<>>
    /\ Count("writeFiltersWithConditionsBytecode") >= 1 =>
          universalActionsWithoutConditions = {}
    /\ (Count("writeConditionedFiltersBytecode") >= 1 \/ Count("finalize") >= 1) =>
          /\ universalActionsWithoutConditions = {}
          /\ universalActionsWithConditions = {}

\* a run of rules that put something in every structure: an action buffer,
\* both universal action sets and a domain-condition chunk
C24_Witness ==
    /\ Succeeded
    /\ client[1].data # <<>>
    /\ UniversalWords("withoutConditions") # {}
    /\ UniversalWords("withConditions") # {}
    /\ Count("writeConditionedFiltersBytecode") >= 1

----------------------------------------------------------------------------
(* Further claims about serializeActions, checked under SpecActions. *)

\* serializeActions has ended, by returning or by a fatal error
SerializeEnded == pc = "writeActions" \/ pc = "crashed"

\* the results of flushing the pending map of the locals s
Flushed(s) ==
    {resolvePendingDisplayNoneActions(s.actions, s.actionLocations, s.fatal,
                                      s.cssDisplayNoneActionsMap, order) :
        order \in SlotOrders(s)}

\* C25: serializeActions ends by returning one location per rule; after k
\* rules the location array has length k and nothing was fatal; every index
\* recorded in a slot of the pending map is the index of a rule already
\* processed, an unconditioned selector rule with the slot's Trigger; and a
\* flush changes the locations of the clients of the pending map only.
C25_OneLocationPerRule ==
    SerializeEnded =>
        /\ pc = "writeActions"
        /\ Len(actionLocations) = NumRules
        /\ \A k \in 0..NumRules :
              \A s \in statesAfter(parsedRuleList, k) :
                  /\ Len(s.actionLocations) = k
                  /\ ~s.fatal
                  /\ \A t \in DOMAIN s.cssDisplayNoneActionsMap :
                        \A c \in Range(s.cssDisplayNoneActionsMap[t].clientLocations) :
                            /\ c >= 0 /\ c < k
                            /\ IsSelector(c + 1) /\ Unconditioned(c + 1)
                            /\ TriggerOf(c + 1) = t
                  /\ \A r \in Flushed(s) :
                        /\ Len(r.actionLocations) = k
                        /\ ~r.fatal
                        /\ \A j \in 1..k :
                              j \notin Clients(s) => r.actionLocations[j] = s.actionLocations[j]

\* a selector rule between two other rules: the final flush fills the slot
\* in the middle and leaves the other two
C25_Witness ==
    /\ Serialized
    /\ NumRules = 3
    /\ ~IsSelector(1) /\ ~IsSelector(3)
    /\ IsSelector(2) /\ Unconditioned(2)
    /\ LocationOf(1) < LocationOf(3)
    /\ LocationOf(3) < LocationOf(2)

\* C26: in the buffer serializeActions returns, the byte at every rule's
\* action location is the rule's action type, and two rules of different
\* action types have different action locations.
C26_TypeAtLocation ==
    Serialized =>
        /\ \A k \in 1..NumRules :
              /\ LocationOf(k) < Len(actions)
              /\ ActionTypes[ByteAt(LocationOf(k)) + 1] = TypeOf(k)
        /\ \A i, j \in 1..NumRules :
              TypeOf(i) # TypeOf(j) => LocationOf(i) # LocationOf(j)

\* three rules of three types, one of them a batched selector rule and one
\* with conditions
C26_Witness ==
    /\ Serialized
    /\ NumRules = 3
    /\ IsSelector(1) /\ Unconditioned(1)
    /\ IsIgnore(2)
    /\ TypeOf(3) = "MakeHTTPS" /\ ~Unconditioned(3)

\* rule k is a selector rule without conditions
BatchedSelector(k) == IsSelector(k) /\ Unconditioned(k)

\* C27: two selector rules without conditions whose Triggers differ, be it
\* in the URL filter, the case sensitivity or the flags, have different
\* action locations; all the rules at a selector rule's location have its
\* Trigger, and the entry there is the join of their selectors only.
C27_OneTriggerPerEntry ==
    Serialized =>
        /\ \A i, j \in 1..NumRules :
              (BatchedSelector(i) /\ BatchedSelector(j) /\ TriggerOf(i) # TriggerOf(j))
                  => LocationOf(i) # LocationOf(j)
        /\ \A k \in 1..NumRules :
              BatchedSelector(k) =>
                  /\ \A j \in SharingLocation(k) : TriggerOf(j) = TriggerOf(k)
                  /\ SelectorEntryAt(LocationOf(k))
                  /\ EntryChars(LocationOf(k)) = JoinedSelectors(SharingLocation(k))

\* three pending selector rules whose Triggers differ in one field each
C27_Witness ==
    /\ Serialized
    /\ NumRules = 3
    /\ \A k \in 1..3 : BatchedSelector(k) /\ TriggerOf(k).urlFilter = "a"
    /\ TriggerOf(1).flags # TriggerOf(2).flags
    /\ TriggerOf(1).urlFilterIsCaseSensitive # TriggerOf(3).urlFilterIsCaseSensitive
    /\ TriggerOf(2).urlFilterIsCaseSensitive = TriggerOf(1).urlFilterIsCaseSensitive
    /\ TriggerOf(3).flags = TriggerOf(1).flags

----------------------------------------------------------------------------
(* A further claim about the partition loop, checked under Spec. *)

\* the addDomain calls made so far for the rule at an index
DomainCallsFor(index) ==
    {n \in DOMAIN filterCalls :
        filterCalls[n].op = "addDomain" /\ filterCalls[n].ruleIndex = index}

\* C28: for every rule with conditions that the partition loop has accepted
\* there is one addDomain call per condition, right after the rule's
\* addPattern call and with the word of that call (which is in the universal
\* action set if the pattern matches everything); there is none for a rule
\* without conditions, for the rule compilation fails at, or for a rule not
\* reached; and conditionFilters holds exactly what these calls added.
C28_DomainsOfAcceptedRules ==
    Partitioning =>
        /\ \A index \in 0..(Len(parsedRuleList) - 1) :
              LET trigger == parsedRuleList[index + 1].trigger
              IN  IF index < ruleIndex /\ trigger.conditions # <<>>
                  THEN /\ Cardinality(PatternCallsFor(index)) = 1
                       /\ Cardinality(DomainCallsFor(index)) = Len(trigger.conditions)
                       /\ \A p \in DOMAIN trigger.conditions :
                             LET n == (CHOOSE m \in PatternCallsFor(index) : TRUE) + p
                             IN  /\ n \in DomainCallsFor(index)
                                 /\ filterCalls[n].pattern = trigger.conditions[p]
                                 /\ filterCalls[n].action = filterCalls[n - p].action
                                 /\ IfConditionFlagSet(filterCalls[n].action)
                                       <=> trigger.conditionType = "IfDomain"
                                 /\ addPatternStatus(trigger.urlFilter) = "MatchesEverything"
                                       => filterCalls[n].action \in universalActionsWithConditions
                  ELSE DomainCallsFor(index) = {}
        /\ conditionFilters =
              {[pattern |-> filterCalls[n].pattern, caseSensitive |-> TRUE,
                action |-> filterCalls[n].action] :
                  n \in {m \in DOMAIN filterCalls : filterCalls[m].op = "addDomain"}}

\* an IfDomain rule whose pattern matches everything, a rule without
\* conditions, and a rule with conditions whose pattern is rejected
C28_Witness ==
    /\ Returned
    /\ result = "JSONInvalidRegex"
    /\ Len(parsedRuleList) = 3
    /\ ruleIndex = 2
    /\ parsedRuleList[1].trigger.conditionType = "IfDomain"
    /\ parsedRuleList[1].trigger.urlFilter = ".*"
    /\ parsedRuleList[2].trigger.conditions = <<>>
    /\ parsedRuleList[3].trigger.conditions # <<>>

----------------------------------------------------------------------------
(* CSSFontFaceSet: the face list, its partition index and the active count.
   The lookup tables, the cache and the client callbacks do not touch these
   fields and are left out.  An unsigned count that wraps below zero shows
   as a negative number. *)

MaxFaces == 3
MaxActiveCount == 3

FaceIds == 1..MaxFaces

\* CSSFontFace::Status
FaceStatuses == {"Pending", "Loading", "TimedOut", "Success", "Failure"}

\* the status changes CSSFontFace::setStatus goes through, as asserted by
\* fontStateChanged
StatusChanges ==
    {<<"Pending", "Loading">>, <<"Loading", "TimedOut">>,
     <<"Loading", "Success">>, <<"Loading", "Failure">>,
     <<"TimedOut", "Success">>, <<"TimedOut", "Failure">>}

\* face.status() == Loading || face.status() == TimedOut
isActive(status) == status \in {"Loading", "TimedOut"}

\* the fields of the CSSFontFaceSet as one value
FaceSet ==
    [m_faces |-> m_faces, m_facesPartitionIndex |-> m_facesPartitionIndex,
     m_activeCount |-> m_activeCount, m_status |-> m_status]

\* hasFace
hasFace(faces, face) == \E i \in DOMAIN faces : faces[i] = face

\* Vector::insert(position, value), positions from 0
insert(vector, position, value) ==
    SubSeq(vector, 1, position) \o <<value>> \o SubSeq(vector, position + 1, Len(vector))

\* Vector::remove(position), positions from 0
removeAt(vector, position) ==
    SubSeq(vector, 1, position) \o SubSeq(vector, position + 2, Len(vector))

\* incrementActiveCount
incrementActiveCount(set) ==
    LET count == set.m_activeCount + 1
    IN  [set EXCEPT !.m_activeCount = count,
                    !.m_status = IF count = 1 THEN "Loading" ELSE @]

\* decrementActiveCount
decrementActiveCount(set) ==
    LET count == set.m_activeCount - 1
    IN  [set EXCEPT !.m_activeCount = count,
                    !.m_status = IF count = 0 THEN "Loaded" ELSE @]

\* add with every face appended, whether it has a CSS connection or not
add_alwaysAppends(set, face) ==
    LET appended == [set EXCEPT !.m_faces = Append(@, face)]
    IN  IF isActive(fontFaces[face].status)
        THEN incrementActiveCount(appended)
        ELSE appended

\* add: a face with a CSS connection is inserted at the partition index,
\* which moves up by one; any other face is appended
add(set, face) ==
    LET inserted ==
            IF fontFaces[face].cssConnection
            THEN [set EXCEPT !.m_faces = insert(@, set.m_facesPartitionIndex, face),
                             !.m_facesPartitionIndex = @ + 1]
            ELSE [set EXCEPT !.m_faces = Append(@, face)]
    IN  IF isActive(fontFaces[face].status)
        THEN incrementActiveCount(inserted)
        ELSE inserted

\* remove: the loop finds the face at i, positions from 0
remove(set, face) ==
    LET i == (CHOOSE k \in DOMAIN set.m_faces : set.m_faces[k] = face) - 1
        removed ==
            [set EXCEPT !.m_facesPartitionIndex =
                            IF i < set.m_facesPartitionIndex THEN @ - 1 ELSE @,
                        !.m_faces = removeAt(@, i)]
    IN  IF isActive(fontFaces[face].status)
        THEN decrementActiveCount(removed)
        ELSE removed

\* for (auto& item : toRemove) remove(item.get());
RECURSIVE removeEach(_, _)
removeEach(set, toRemove) ==
    IF toRemove = <<>> THEN set
    ELSE removeEach(remove(set, Head(toRemove)), Tail(toRemove))

\* purge, with the faces that answer purgeable()
purge(set, purgeable) ==
    removeEach(set, SelectSeq(set.m_faces, LAMBDA face : face \in purgeable))

\* fontStateChanged
fontStateChanged(set, oldState, newState) ==
    LET started == IF oldState = "Pending" THEN incrementActiveCount(set) ELSE set
    IN  IF newState \in {"Success", "Failure"}
        THEN decrementActiveCount(started)
        ELSE started

\* the fields of the set take the values of a record
Becomes(set) ==
    /\ m_faces' = set.m_faces
    /\ m_facesPartitionIndex' = set.m_facesPartitionIndex
    /\ m_activeCount' = set.m_activeCount
    /\ m_status' = set.m_status

\* CSSFontFaceSet::add(face)
Add(face) ==
    /\ ~hasFace(m_faces, face)
    /\ m_activeCount < MaxActiveCount
    /\ Becomes(add(FaceSet, face))
    /\ addedFaces' = Append(addedFaces, face)
    /\ UNCHANGED <<fontFaces, compilerVars, universalAttach>>

\* CSSFontFaceSet::remove(face)
Remove(face) ==
    /\ hasFace(m_faces, face)
    /\ Becomes(remove(FaceSet, face))
    /\ addedFaces' = SelectSeq(addedFaces, LAMBDA other : other # face)
    /\ UNCHANGED <<fontFaces, compilerVars, universalAttach>>

\* CSSFontFaceSet::purge(): any of the faces may be purgeable
Purge ==
    \E purgeable \in SUBSET Range(m_faces) :
        /\ Becomes(purge(FaceSet, purgeable))
        /\ addedFaces' = SelectSeq(addedFaces, LAMBDA face : face \notin purgeable)
        /\ UNCHANGED <<fontFaces, compilerVars, universalAttach>>

\* CSSFontFaceSet::clear()
Clear ==
    /\ m_faces' = clear(m_faces)
    /\ m_facesPartitionIndex' = 0
    /\ m_status' = "Loaded"
    /\ addedFaces' = <<>>
    /\ UNCHANGED <<m_activeCount, fontFaces, compilerVars, universalAttach>>

\* A face of the set changes its status and tells the set, its client.
FontStateChanged(face) ==
    /\ hasFace(m_faces, face)
    /\ \E newState \in FaceStatuses :
          /\ <<fontFaces[face].status, newState>> \in StatusChanges
          /\ fontFaces' = [fontFaces EXCEPT ![face].status = newState]
          /\ Becomes(fontStateChanged(FaceSet, fontFaces[face].status, newState))
    /\ UNCHANGED <<addedFaces, compilerVars, universalAttach>>

\* A face that is in no set changes its status.
SetStatus(face) ==
    /\ ~hasFace(m_faces, face)
    /\ \E newState \in FaceStatuses :
          /\ <<fontFaces[face].status, newState>> \in StatusChanges
          /\ fontFaces' = [fontFaces EXCEPT ![face].status = newState]
    /\ UNCHANGED <<m_faces, m_facesPartitionIndex, m_activeCount, m_status,
                   addedFaces, compilerVars, universalAttach>>

\* an empty set, and faces that have not started to load, with or without a
\* CSS connection
InitFontFaceSet ==
    /\ ruleJSON = Malformed
    /\ Locals
    /\ EmptyFontFaceSet
    /\ pc = "parseRuleList"
    /\ fontFaces \in [FaceIds -> [status : {"Pending"}, cssConnection : BOOLEAN]]

NextFontFaceSet ==
    \/ \E face \in FaceIds : Add(face)
    \/ \E face \in FaceIds : Remove(face)
    \/ Purge
    \/ Clear
    \/ \E face \in FaceIds : FontStateChanged(face)
    \/ \E face \in FaceIds : SetStatus(face)

SpecFontFaceSet == InitFontFaceSet /\ [][NextFontFaceSet]_vars

\* the faces of the set that are loading or have timed out
ActiveFaces == {i \in DOMAIN m_faces : isActive(fontFaces[m_faces[i]].status)}

\* C29: the status of the set is Loading exactly when the active count is
\* above zero, and the active count is the number of faces of the set whose
\* status is Loading or TimedOut.
C29_Original ==
    /\ m_status = "Loading" <=> m_activeCount > 0
    /\ m_activeCount = Cardinality(ActiveFaces)

\* the face has a CSS connection
Connected(face) == fontFaces[face].cssConnection

\* the face has no CSS connection
Unconnected(face) == ~fontFaces[face].cssConnection

\* C30: the partition index is at most the number of faces and is the number
\* of faces with a CSS connection; the faces before it are the faces with a
\* CSS connection and the faces from it on are the others; and each of the
\* two groups is in the order in which its faces were added.
C30_FacesPartitioned ==
    /\ m_facesPartitionIndex <= Len(m_faces)
    /\ m_facesPartitionIndex =
          Cardinality({i \in DOMAIN m_faces : Connected(m_faces[i])})
    /\ \A i \in DOMAIN m_faces :
          Connected(m_faces[i]) <=> i <= m_facesPartitionIndex
    /\ SelectSeq(m_faces, Connected) = SelectSeq(addedFaces, Connected)
    /\ SelectSeq(m_faces, Unconnected) = SelectSeq(addedFaces, Unconnected)

\* a face with a CSS connection was added after one without, so the list is
\* not in the order of the adds; a loading face is in the set and another
\* face is outside it
C30_Witness ==
    /\ Len(m_faces) = 2
    /\ m_facesPartitionIndex = 1
    /\ m_faces # addedFaces
    /\ \E face \in FaceIds : ~hasFace(m_faces, face) /\ m_activeCount = 1
                             /\ isActive(fontFaces[m_faces[1]].status)

====
